---------------------------- MODULE Spec2Model ----------------------------
(***************************************************************************)
(* State-machine model of sync-secrets-action (cmd/sync-secrets-action).  *)
(*                                                                         *)
(* One run of main: the parsed mappings are pushed to every target        *)
(* repository through the client built by NewGitHubAPI, that is the       *)
(* retryableGitHubAPI decorator around gitHubAPI.  The remote platform is  *)
(* modelled as one name set per repository and store; every remote call   *)
(* is one step that either succeeds or fails.                              *)
(***************************************************************************)
EXTENDS Integers, Sequences, FiniteSets, TLC

(***************************************************************************)
(* Bounds of the model.                                                    *)
(***************************************************************************)
\* entry names are 1..NumNames
NumNames == 3
\* repositories known to the remote are 1..NumRepos
NumRepos == 2
\* items per page returned by the remote; stands for ListOptions{PerPage: 100},
\* scaled to the size of the name universe
PerPage == 2
\* coreRate.Limit of the remote's quota; stands for the platform's limit,
\* scaled so that remaining = QuotaLimit \div 20 is the 5% boundary
QuotaLimit == 20
\* seconds from the start of a quota window to its reset
ResetAfter == 2
\* lines of a KEY=VALUE input given to the parser
MaxLines == 3
\* members of a JSON input given to the parser
MaxMembers == 2

(***************************************************************************)
(* Program constants.                                                      *)
(***************************************************************************)
\* EnvArgs.MaxRetries: default:"3"
DefaultMaxRetries == 3
\* The times of the backoff are counted in quarters of a second, the longest
\* unit in which the intervals of the first three retries (2 s, 3 s, 4.5 s)
\* and their halves are whole numbers.
\* backoffOptions.InitialInterval = 2 * time.Second
InitialInterval == 8
\* backoff.DefaultMaxInterval = 60 * time.Second
MaxInterval == 240
\* backoff.DefaultMaxElapsedTime = 15 * time.Minute
MaxElapsedTime == 3600
\* var boxKey [32]byte: the size of a public key of the sealed box
KeySize == 32

Names == 1..NumNames
Repos == 1..NumRepos
\* a repository reference that resolves to nothing on the remote
NoRepo == 0

\* TargetType constants of main.go
Actions == "actions"
Dependabot == "dependabot"
Codespaces == "codespaces"
Types == {Actions, Dependabot, Codespaces}

\* the six remote stores a repository has
Scopes == {"repoSecrets", "repoVariables", "envSecrets", "envVariables",
           "dependabotSecrets", "codespacesSecrets"}

IsVariableScope(s) == s \in {"repoVariables", "envVariables"}
IsEnvScope(s) == s \in {"envSecrets", "envVariables"}

NoErr == [kind |-> "none", arg |-> 0]

VARIABLES
    args,          \* EnvArgs: DryRun, Prune, Type, Environment, MaxRetries, Query,
                   \* TargetRepo, RateLimit, Secrets, Variables
    secretsMap,    \* key set of parseKeyValuePairs(args.Secrets)
    variablesMap,  \* key set of parseKeyValuePairs(args.Variables)
    ownerName,     \* remote: the repository that (Owner.Name, Name) of a repository resolves to
    store0,        \* remote: the entry names of every store when the run starts
    store,         \* remote: the entry names of every store now
    pc,            \* position of the single thread of control
    repos,         \* SearchRepositories: allRepos; main: the repositories to process
    repoIdx,       \* main: index of the repository being processed
    hIdx,          \* processRepository: index of the handler being run
    processed,     \* repositories for which processRepository has returned
    op,            \* the operation handed to the retry decorator
    backoffOptions,\* retryableGitHubAPI.backoffOptions: numTries, currentInterval, the
                   \* time elapsed since Reset when it was last read, and the interval
                   \* NextBackOff last drew
    invocations,   \* how often the retry decorator has invoked the operation
    err,           \* result of the operation's last invocation
    page,          \* opts.Page of the running listing
    existingMap,   \* Sync*: the names listed so far
    delLeft,       \* Sync*: names of the delete loop not yet visited
    putLeft,       \* Put*: names of the upsert loop not yet visited
    log,           \* history: remote calls of the current invocation, in order
    calls,         \* history: kinds of remote call issued in the whole run
    core,          \* remote: the core quota the governor was last told
    rateLimitStatus,\* ensureRatelimits: the quota it fetched
    slept,         \* history: seconds the governor has slept for the gated call
    quotaFresh,    \* history: the last remote call was a fetch of the quota
    publicKey,     \* Put*Secrets: the public key it fetched
    secretsRaw,    \* the last call of parseKeyValuePairs: its input
    parsed         \* the last call of parseKeyValuePairs: what it returned

vars == <<args, secretsMap, variablesMap, ownerName, store0, store, pc, repos,
          repoIdx, hIdx, processed, op, backoffOptions, invocations, err, page,
          existingMap, delLeft, putLeft, log, calls, core, rateLimitStatus,
          slept, quotaFresh, publicKey, secretsRaw, parsed>>

\* the state of the rate-limit governor
govVars == <<core, rateLimitStatus, slept>>

\* the state of the last call of parseKeyValuePairs
parseVars == <<secretsRaw, parsed>>

\* the state of a run of main
mainVars == <<args, secretsMap, variablesMap, ownerName, store0, store, pc, repos,
              repoIdx, hIdx, processed, op, backoffOptions, invocations, err, page,
              existingMap, delLeft, putLeft, log, calls, core, rateLimitStatus,
              slept, quotaFresh, publicKey>>


(***************************************************************************)
(* Pure helpers.                                                           *)
(***************************************************************************)
\* fault: the variables handler is run for every target type
HandlersWithVariables(a) ==
    IF a.Type = Actions
    THEN IF a.Environment = ""
         THEN <<"repoSecrets", "repoVariables">>
         ELSE <<"envSecrets", "envVariables">>
    ELSE IF a.Type = Dependabot
         THEN <<"dependabotSecrets", "repoVariables">>
         ELSE IF a.Type = Codespaces
         THEN <<"codespacesSecrets", "repoVariables">>
         ELSE <<>>

\* processRepository: the handlers run for a repository, in order; none
\* for a target type that is none of the three, the default branch of the
\* switch, which ends the run with log.Fatalf
Handlers(a) ==
    IF a.Type = Actions
    THEN IF a.Environment = ""
         THEN <<"repoSecrets", "repoVariables">>
         ELSE <<"envSecrets", "envVariables">>
    ELSE IF a.Type = Dependabot
         THEN <<"dependabotSecrets">>
         ELSE IF a.Type = Codespaces
         THEN <<"codespacesSecrets">>
         ELSE <<>>

UnsupportedTarget(a) == a.Type \notin Types

\* the mapping a handler passes on: secretsMap or variablesMap
Mappings(s) == IF IsVariableScope(s) THEN variablesMap ELSE secretsMap

\* the repository a call on store s is addressed to while repository r is
\* processed: the environment variable calls pass r.GetOwner().GetName() and
\* r.GetName() of the fetched repository, every other call the owner and
\* name (or the id resolved from them) it was given
Addr(s, r) == IF s = "envVariables" THEN ownerName[r] ELSE r

\* the remote's listing: page p of the set S, PerPage items a page
PageOf(S, p) ==
    {n \in S : Cardinality({m \in S : m <= n}) \in ((p - 1) * PerPage + 1)..(p * PerPage)}

\* fault: a listing that never reports a further page
NextPageNone(S, p) == 0

\* resp.NextPage of page p: 0 when p is the last page
NextPage(S, p) == IF p * PerPage < Cardinality(S) THEN p + 1 ELSE 0

\* fault: a delete loop without the membership test on mappings
ToDeleteAll(existing, mappings) == existing

\* the delete loop of Sync*: listed names with no entry in mappings
ToDelete(existing, mappings) == existing \ mappings

\* fault: the dry-run flag is not passed on to the client
dryRunIgnored == FALSE

\* gitHubAPI.dryRunEnabled, set by NewGitHubAPI from args.DryRun
dryRunEnabled == args.DryRun

\* fault: a handler that calls Sync* whatever the prune flag says
HandlerOpAlwaysSync(prune) == "Sync"

\* handle*: the client method a handler calls for a non-empty mapping
HandlerOp(prune) == IF prune THEN "Sync" ELSE "Put"

\* fault: a listing loop that does not look at the error of the call
ListErrIgnored(ok, p) == NoErr

\* Sync*: the error the listing loop returns after a page's call
ListErr(ok, p) == IF ok THEN NoErr ELSE [kind |-> "list", arg |-> p]

\* fault: a delete loop that does not look at the error of the call
DeleteErrIgnored(ok, n) == NoErr

\* Sync*: the error the delete loop returns after the delete of name n
DeleteErr(ok, n) == IF ok THEN NoErr ELSE [kind |-> "delete", arg |-> n]

\* Put*Secrets: the error the loop returns after the sealing of entry n
SealErr(failed, n) == IF failed THEN [kind |-> "seal", arg |-> n] ELSE NoErr

\* fault: an upsert loop that does not look at the error of the call
PutErrIgnored(ok, n) == NoErr

\* Put*Secrets: the error the loop returns after CreateOrUpdate*Secret of
\* entry n
PutErr(ok, n) == IF ok THEN NoErr ELSE [kind |-> "put", arg |-> n]

\* main: the validation of args.MaxRetries
ValidMaxRetries(n) == ~(n < 0)

\* fault: a decorator that returns an error of its own when it gives up
RetryErrWrapped(e) == [kind |-> "retry", arg |-> 0]

\* retryableGitHubAPI: the error backoff.Retry returns when it gives up on
\* an operation whose last invocation returned e
RetryErr(e) == e

\* fault: a retry bound for which 0 means no bound at all
MaxRetriesStopZeroUnbounded(maxTries, numTries) == maxTries > 0 /\ maxTries <= numTries

\* fault: the public key is fetched anew for every entry
PutLoopRefetch(s) == IF IsVariableScope(s) THEN "upsert" ELSE "key"

\* Put*: the loop over mappings goes on to the next entry; the public key
\* fetched before the loop is kept
PutLoop(s) == "upsert"

\* Put* after the dry-run check: where its first remote call is made
PutEntry(s) ==
    IF IsEnvScope(s) THEN "putGet"
    ELSE IF IsVariableScope(s) THEN "upsert" ELSE "key"

\* fault: a retry bound that counts the first invocation and the next one as
\* retries already made
MaxRetriesStopEarly(maxTries, numTries) == maxTries = 0 \/ maxTries <= numTries + 2

\* backoffWithTries.NextBackOff of backoff.WithMaxRetries: TRUE when it
\* answers Stop after numTries retries
MaxRetriesStop(maxTries, numTries) == maxTries = 0 \/ maxTries <= numTries

\* ExponentialBackOff.NextBackOff, getRandomValueFromInterval: the intervals
\* the randomization (factor 0.5) can draw from currentInterval.  With
\* delta half of currentInterval the draw is min + random * (max - min + 1)
\* cut to a whole number, min and max being currentInterval less and plus
\* delta and random any number from 0 up to, not including, 1: every time
\* from half of currentInterval to one and a half of it
RandomizedInterval(b) ==
    (b.currentInterval \div 2)..((3 * b.currentInterval + 1) \div 2)

\* ExponentialBackOff.GetElapsedTime: the time since Reset, ran the time
\* the invocation that has just returned took
GetElapsedTime(b, ran) == b.elapsed + ran

\* ExponentialBackOff.NextBackOff: Stop once the elapsed time and the
\* interval next that was drawn exceed MaxElapsedTime
MaxElapsedStop(elapsed, next) == elapsed + next > MaxElapsedTime

\* ExponentialBackOff.incrementCurrentInterval (multiplier 1.5, capped)
IncrementCurrentInterval(b) ==
    IF (b.currentInterval * 3) \div 2 >= MaxInterval
    THEN MaxInterval
    ELSE (b.currentInterval * 3) \div 2

\* NextBackOff of the backoff built by newRetryableGitHubAPI: TRUE for Stop,
\* elapsed the time since Reset and next the interval drawn
NextBackOffStop(maxTries, b, elapsed, next) ==
    MaxRetriesStop(maxTries, b.numTries) \/ MaxElapsedStop(elapsed, next)

\* BackOff.Reset, called by backoff.Retry before its first invocation.
\* elapsed is the time since then, next the interval of the timer that
\* backoff.Retry waits for, 0 when it waits for none
Reset == [numTries |-> 0, currentInterval |-> InitialInterval, elapsed |-> 0, next |-> 0]

\* the outcomes a remote call can have: any call can fail; a call the
\* remote must reject always fails
Outcomes(rejected) == IF rejected THEN {FALSE} ELSE {TRUE, FALSE}

\* the record of one remote call: kind, addressed repository, store, name or
\* page, whether it succeeded, whether a quota fetch came right before it,
\* and the key id it carries (set for the secrets sent)
\* no public key: none fetched, or the call sends no secret
NoKey == [repo |-> NoRepo, scope |-> "none"]

\* the public key of a response: its key id and whether its text is
\* standard base64; NoPublicKey when the fetch failed or none was made
PublicKey(id, std) == [repo |-> id.repo, scope |-> id.scope, std |-> std]
NoPublicKey == PublicKey(NoKey, TRUE)

\* publicKey.GetKeyID()
GetKeyID(key) == [repo |-> key.repo, scope |-> key.scope]

\* base64.StdEncoding.DecodeString(publicKey.GetKey()): TRUE when it returns
\* an error
DecodeStringErr(key) == ~key.std

\* the key id of the public key the remote holds for secret store s of
\* repository r (for environment secrets: of the environment of r)
KeyID(r, s) == [repo |-> r, scope |-> s]

\* the number of bytes the public key with id key decodes to: the remote
\* holds keys of the full size, and keys that are one byte short for the
\* stores of the last repository
DecodedLen(key) == IF key.repo = NumRepos THEN KeySize - 1 ELSE KeySize

\* var boxKey [32]byte; copy(boxKey[:], decodedPublicKey): the bytes taken
\* from a decoded key of n bytes and the zero bytes left after them
BoxKey(n) ==
    [fromKey |-> IF n < KeySize THEN n ELSE KeySize,
     zeros |-> IF n < KeySize THEN KeySize - n ELSE 0]

\* fault: every secret is sealed for the first repository's Actions store
encryptSecretWithFirstKey(key, secretName) ==
    [Name |-> secretName, KeyID |-> KeyID(1, "repoSecrets"),
     BoxKey |-> BoxKey(DecodedLen(KeyID(1, "repoSecrets"))),
     err |-> DecodeStringErr(key)]

\* encryptSecretWithPublicKey: the EncryptedSecret sent for an entry, its
\* Name the entry's name and its KeyID the id of the key it was sealed with;
\* BoxKey is the key box.SealAnonymous sealed the value for, and err tells
\* that the key's text did not decode.  The decoded key is copied whatever
\* its length, and no error is returned for it
encryptSecretWithPublicKey(key, secretName) ==
    [Name |-> secretName, KeyID |-> GetKeyID(key), BoxKey |-> BoxKey(DecodedLen(key)),
     err |-> DecodeStringErr(key)]

Call(k, r, s, a, ok, g) ==
    [kind |-> k, repo |-> r, scope |-> s, arg |-> a, ok |-> ok, gated |-> g,
     keyID |-> NoKey]

(***************************************************************************)
(* The quota of the remote, as rateLimitedGitHubAPI reads it.              *)
(***************************************************************************)
\* no quota known: nothing fetched, or the fetch failed
NoQuota == [remaining |-> -1, limit |-> 0, untilReset |-> 0]

\* the quotas the remote can report: remaining at 0, at the 5% boundary and
\* just above it; the reset now, or ResetAfter seconds ahead; and a quota
\* without a limit
CoreStates ==
    [remaining : {0, QuotaLimit \div 20, QuotaLimit \div 20 + 1},
     limit : {QuotaLimit},
     untilReset : {0, ResetAfter}]
    \cup {[remaining |-> 0, limit |-> 0, untilReset |-> ResetAfter]}

\* the remote between two fetches: once the reset is reached it may have
\* started the next window, with the whole quota left in it
NextWindow(c) ==
    IF c.untilReset <= 0
    THEN {c, [remaining |-> c.limit, limit |-> c.limit, untilReset |-> ResetAfter]}
    ELSE {c}

\* fault: a governor that fetches the quota again after a failed fetch
FetchFailedRetry(p) == p

\* ensureRatelimits and waitForRateLimitReset at p, if err != nil: the error
\* is logged and the governor returns, so that the call is passed on
FetchFailed(p) == "delegate"

\* ensureRatelimits: float64(coreRate.Remaining)/float64(coreRate.Limit) <= 0.05.
\* With a limit of 0 the quotient is no number (0/0) or infinite, and the
\* comparison holds for minus infinity alone
NearLimit(c) ==
    IF c.limit > 0 THEN c.remaining * 100 <= 5 * c.limit
    ELSE IF c.limit < 0 THEN c.remaining * 100 >= 5 * c.limit
    ELSE c.remaining < 0

\* waitForRateLimitReset: timeToWait := time.Until(resetTime)
TimeToWait(c) == c.untilReset

\* waitForRateLimitReset: time.Sleep(timeToWait + time.Second), in seconds
SleepFor(c) == TimeToWait(c) + 1

\* seconds slept, counted up to the longest wait one window can require
Slept(t, d) == IF t + d > ResetAfter + 1 THEN ResetAfter + 1 ELSE t + d

(***************************************************************************)
(* Strings: a string is the sequence of its characters.  A character is a  *)
(* string: itself for a printable ASCII character, "\t", "\n", "\f", "\r"  *)
(* for these four, and "U+" with the code point in upper-case hexadecimal  *)
(* (four digits at least) for every other one, "U+00E9" for e-acute.       *)
(* The operators are those of Go's strings package.                        *)
(***************************************************************************)
LowerLetters ==
    <<"a", "b", "c", "d", "e", "f", "g", "h", "i", "j", "k", "l", "m",
      "n", "o", "p", "q", "r", "s", "t", "u", "v", "w", "x", "y", "z">>

UpperLetters ==
    <<"A", "B", "C", "D", "E", "F", "G", "H", "I", "J", "K", "L", "M",
      "N", "O", "P", "Q", "R", "S", "T", "U", "V", "W", "X", "Y", "Z">>

Digits == {"0", "1", "2", "3", "4", "5", "6", "7", "8", "9"}

\* unicode.CaseRanges, the upper case of the characters outside ASCII: the
\* code points from lo to hi in steps of stride have the upper case delta
\* code points further on, <<lo, hi, stride, delta>>.  It is the simple
\* upper-case mapping of the Unicode character database; a character with
\* no entry, the sharp s U+00DF among them, has no upper case of its own
CaseRanges ==
    <<<<181, 181, 1, 743>>, <<224, 246, 1, -32>>, <<248, 254, 1, -32>>, <<255, 255, 1, 121>>,
      <<257, 303, 2, -1>>, <<305, 305, 1, -232>>, <<307, 311, 2, -1>>, <<314, 328, 2, -1>>,
      <<331, 375, 2, -1>>, <<378, 382, 2, -1>>, <<383, 383, 1, -300>>, <<384, 384, 1, 195>>,
      <<387, 389, 2, -1>>, <<392, 392, 1, -1>>, <<396, 396, 1, -1>>, <<402, 402, 1, -1>>,
      <<405, 405, 1, 97>>, <<409, 409, 1, -1>>, <<410, 410, 1, 163>>, <<414, 414, 1, 130>>,
      <<417, 421, 2, -1>>, <<424, 424, 1, -1>>, <<429, 429, 1, -1>>, <<432, 432, 1, -1>>,
      <<436, 438, 2, -1>>, <<441, 441, 1, -1>>, <<445, 445, 1, -1>>, <<447, 447, 1, 56>>,
      <<453, 453, 1, -1>>, <<454, 454, 1, -2>>, <<456, 456, 1, -1>>, <<457, 457, 1, -2>>,
      <<459, 459, 1, -1>>, <<460, 460, 1, -2>>, <<462, 476, 2, -1>>, <<477, 477, 1, -79>>,
      <<479, 495, 2, -1>>, <<498, 498, 1, -1>>, <<499, 499, 1, -2>>, <<501, 501, 1, -1>>,
      <<505, 543, 2, -1>>, <<547, 563, 2, -1>>, <<572, 572, 1, -1>>, <<575, 576, 1, 10815>>,
      <<578, 578, 1, -1>>, <<583, 591, 2, -1>>, <<592, 592, 1, 10783>>, <<593, 593, 1, 10780>>,
      <<594, 594, 1, 10782>>, <<595, 595, 1, -210>>, <<596, 596, 1, -206>>, <<598, 599, 1, -205>>,
      <<601, 601, 1, -202>>, <<603, 603, 1, -203>>, <<604, 604, 1, 42319>>, <<608, 608, 1, -205>>,
      <<609, 609, 1, 42315>>, <<611, 611, 1, -207>>, <<613, 613, 1, 42280>>, <<614, 614, 1, 42308>>,
      <<616, 616, 1, -209>>, <<617, 617, 1, -211>>, <<618, 618, 1, 42308>>, <<619, 619, 1, 10743>>,
      <<620, 620, 1, 42305>>, <<623, 623, 1, -211>>, <<625, 625, 1, 10749>>, <<626, 626, 1, -213>>,
      <<629, 629, 1, -214>>, <<637, 637, 1, 10727>>, <<640, 640, 1, -218>>, <<642, 642, 1, 42307>>,
      <<643, 643, 1, -218>>, <<647, 647, 1, 42282>>, <<648, 648, 1, -218>>, <<649, 649, 1, -69>>,
      <<650, 651, 1, -217>>, <<652, 652, 1, -71>>, <<658, 658, 1, -219>>, <<669, 669, 1, 42261>>,
      <<670, 670, 1, 42258>>, <<837, 837, 1, 84>>, <<881, 883, 2, -1>>, <<887, 887, 1, -1>>,
      <<891, 893, 1, 130>>, <<940, 940, 1, -38>>, <<941, 943, 1, -37>>, <<945, 961, 1, -32>>,
      <<962, 962, 1, -31>>, <<963, 971, 1, -32>>, <<972, 972, 1, -64>>, <<973, 974, 1, -63>>,
      <<976, 976, 1, -62>>, <<977, 977, 1, -57>>, <<981, 981, 1, -47>>, <<982, 982, 1, -54>>,
      <<983, 983, 1, -8>>, <<985, 1007, 2, -1>>, <<1008, 1008, 1, -86>>, <<1009, 1009, 1, -80>>,
      <<1010, 1010, 1, 7>>, <<1011, 1011, 1, -116>>, <<1013, 1013, 1, -96>>, <<1016, 1016, 1, -1>>,
      <<1019, 1019, 1, -1>>, <<1072, 1103, 1, -32>>, <<1104, 1119, 1, -80>>, <<1121, 1153, 2, -1>>,
      <<1163, 1215, 2, -1>>, <<1218, 1230, 2, -1>>, <<1231, 1231, 1, -15>>, <<1233, 1327, 2, -1>>,
      <<1377, 1414, 1, -48>>, <<4304, 4346, 1, 3008>>, <<4349, 4351, 1, 3008>>, <<5112, 5117, 1, -8>>,
      <<7296, 7296, 1, -6254>>, <<7297, 7297, 1, -6253>>, <<7298, 7298, 1, -6244>>, <<7299, 7300, 1, -6242>>,
      <<7301, 7301, 1, -6243>>, <<7302, 7302, 1, -6236>>, <<7303, 7303, 1, -6181>>, <<7304, 7304, 1, 35266>>,
      <<7545, 7545, 1, 35332>>, <<7549, 7549, 1, 3814>>, <<7566, 7566, 1, 35384>>, <<7681, 7829, 2, -1>>,
      <<7835, 7835, 1, -59>>, <<7841, 7935, 2, -1>>, <<7936, 7943, 1, 8>>, <<7952, 7957, 1, 8>>,
      <<7968, 7975, 1, 8>>, <<7984, 7991, 1, 8>>, <<8000, 8005, 1, 8>>, <<8017, 8023, 2, 8>>,
      <<8032, 8039, 1, 8>>, <<8048, 8049, 1, 74>>, <<8050, 8053, 1, 86>>, <<8054, 8055, 1, 100>>,
      <<8056, 8057, 1, 128>>, <<8058, 8059, 1, 112>>, <<8060, 8061, 1, 126>>, <<8064, 8071, 1, 8>>,
      <<8080, 8087, 1, 8>>, <<8096, 8103, 1, 8>>, <<8112, 8113, 1, 8>>, <<8115, 8115, 1, 9>>,
      <<8126, 8126, 1, -7205>>, <<8131, 8131, 1, 9>>, <<8144, 8145, 1, 8>>, <<8160, 8161, 1, 8>>,
      <<8165, 8165, 1, 7>>, <<8179, 8179, 1, 9>>, <<8526, 8526, 1, -28>>, <<8560, 8575, 1, -16>>,
      <<8580, 8580, 1, -1>>, <<9424, 9449, 1, -26>>, <<11312, 11359, 1, -48>>, <<11361, 11361, 1, -1>>,
      <<11365, 11365, 1, -10795>>, <<11366, 11366, 1, -10792>>, <<11368, 11372, 2, -1>>, <<11379, 11379, 1, -1>>,
      <<11382, 11382, 1, -1>>, <<11393, 11491, 2, -1>>, <<11500, 11502, 2, -1>>, <<11507, 11507, 1, -1>>,
      <<11520, 11557, 1, -7264>>, <<11559, 11559, 1, -7264>>, <<11565, 11565, 1, -7264>>, <<42561, 42605, 2, -1>>,
      <<42625, 42651, 2, -1>>, <<42787, 42799, 2, -1>>, <<42803, 42863, 2, -1>>, <<42874, 42876, 2, -1>>,
      <<42879, 42887, 2, -1>>, <<42892, 42892, 1, -1>>, <<42897, 42899, 2, -1>>, <<42900, 42900, 1, 48>>,
      <<42903, 42921, 2, -1>>, <<42933, 42947, 2, -1>>, <<42952, 42954, 2, -1>>, <<42961, 42961, 1, -1>>,
      <<42967, 42969, 2, -1>>, <<42998, 42998, 1, -1>>, <<43859, 43859, 1, -928>>, <<43888, 43967, 1, -38864>>,
      <<65345, 65370, 1, -32>>, <<66600, 66639, 1, -40>>, <<66776, 66811, 1, -40>>, <<66967, 66977, 1, -39>>,
      <<66979, 66993, 1, -39>>, <<66995, 67001, 1, -39>>, <<67003, 67004, 1, -39>>, <<68800, 68850, 1, -64>>,
      <<71872, 71903, 1, -32>>, <<93792, 93823, 1, -32>>, <<125218, 125251, 1, -34>>>>

\* unicode.IsSpace: the white space of ASCII (vertical tab, U+000B,
\* included) and that of Unicode outside it
IsSpace(c) ==
    c \in {" ", "\n", "\t", "\r", "\f", "U+000B",
           "U+0085", "U+00A0", "U+1680", "U+2000", "U+2001", "U+2002",
           "U+2003", "U+2004", "U+2005", "U+2006", "U+2007", "U+2008", "U+2009",
           "U+200A", "U+2028", "U+2029", "U+202F", "U+205F", "U+3000"}

\* the digits of base 16 in the order of their values, and the printable
\* characters of ASCII from the space (0x20) to the tilde (0x7E); the grave
\* accent, which no string of TLA+ can hold, is "U+0060"
HexChars ==
    <<"0", "1", "2", "3", "4", "5", "6", "7", "8", "9", "A", "B", "C", "D", "E", "F">>

Printable ==
    <<" ", "!", "\"", "#", "$", "%", "&", "'", "(", ")", "*", "+", ",", "-", ".", "/",
      "0", "1", "2", "3", "4", "5", "6", "7", "8", "9", ":", ";", "<", "=", ">", "?",
      "@", "A", "B", "C", "D", "E", "F", "G", "H", "I", "J", "K", "L", "M", "N", "O",
      "P", "Q", "R", "S", "T", "U", "V", "W", "X", "Y", "Z", "[", "\\", "]", "^", "_",
      "U+0060", "a", "b", "c", "d", "e", "f", "g", "h", "i", "j", "k", "l", "m", "n", "o",
      "p", "q", "r", "s", "t", "u", "v", "w", "x", "y", "z", "{", "|", "}", "~">>

\* n in upper-case hexadecimal, and the character with code point n
RECURSIVE HexString(_)
HexString(n) ==
    IF n < 16 THEN HexChars[n + 1]
    ELSE HexString(n \div 16) \o HexChars[(n % 16) + 1]

CharOf(n) ==
    IF n = 9 THEN "\t"
    ELSE IF n = 10 THEN "\n"
    ELSE IF n = 12 THEN "\f"
    ELSE IF n = 13 THEN "\r"
    ELSE IF n >= 32 /\ n <= 126 THEN Printable[n - 31]
    ELSE IF n < 16 THEN "U+000" \o HexString(n)
    ELSE IF n < 256 THEN "U+00" \o HexString(n)
    ELSE IF n < 4096 THEN "U+0" \o HexString(n)
    ELSE "U+" \o HexString(n)

\* the characters that have an upper case in the table, each with it
CasePairs ==
    UNION {{<<CharOf(m), CharOf(m + CaseRanges[i][4])>> :
               m \in {k \in CaseRanges[i][1]..CaseRanges[i][2] :
                          (k - CaseRanges[i][1]) % CaseRanges[i][3] = 0}} :
           i \in DOMAIN CaseRanges}

\* unicode.ToUpper of one character: of an ASCII character the upper-case
\* letter of a lower-case letter and the character itself otherwise, of
\* any other character what the table says
ToUpperChar(c) ==
    IF \E i \in 1..Len(LowerLetters) : LowerLetters[i] = c
    THEN UpperLetters[CHOOSE i \in 1..Len(LowerLetters) : LowerLetters[i] = c]
    ELSE IF \E i \in 1..Len(Printable) : Printable[i] = c
    THEN c
    ELSE IF \E p \in CasePairs : p[1] = c
    THEN (CHOOSE p \in CasePairs : p[1] = c)[2]
    ELSE c

\* fault: keys are stored as they are written
ToUpperNot(s) == s

\* strings.ToUpper
ToUpper(s) == [i \in 1..Len(s) |-> ToUpperChar(s[i])]

\* the text of s from its first to its last character outside white space,
\* keep the positions of those characters
Between(s, keep) ==
    IF keep = {}
    THEN <<>>
    ELSE SubSeq(s, CHOOSE i \in keep : \A j \in keep : i <= j,
                   CHOOSE i \in keep : \A j \in keep : j <= i)

\* strings.TrimSpace: s without its leading and trailing white space
TrimSpace(s) == Between(s, {i \in 1..Len(s) : ~IsSpace(s[i])})

\* strings.HasPrefix and strings.HasSuffix, for a prefix or suffix of one
\* character
HasPrefix(s, c) == Len(s) > 0 /\ s[1] = c
HasSuffix(s, c) == Len(s) > 0 /\ s[Len(s)] = c

\* strings.Index for one character: its first position in s, 0 if none
Index(s, c) ==
    IF \E i \in 1..Len(s) : s[i] = c
    THEN CHOOSE i \in 1..Len(s) : s[i] = c /\ \A j \in 1..(i - 1) : s[j] # c
    ELSE 0

\* strings.Split(s, sep) for a separator of one character; SplitAt cuts s
\* at position i, the first separator
RECURSIVE Split(_, _)
SplitAt(s, sep, i) ==
    IF i = 0
    THEN <<s>>
    ELSE <<SubSeq(s, 1, i - 1)>> \o Split(SubSeq(s, i + 1, Len(s)), sep)

Split(s, sep) == SplitAt(s, sep, Index(s, sep))

\* strings.SplitN(s, sep, 2): s cut at the first separator only, at i
CutAt(s, i) ==
    IF i = 0
    THEN <<s>>
    ELSE <<SubSeq(s, 1, i - 1), SubSeq(s, i + 1, Len(s))>>

\* fault: the line is cut at its last separator
SplitNLast(s, sep) ==
    CutAt(s, IF \E i \in 1..Len(s) : s[i] = sep
             THEN CHOOSE i \in 1..Len(s) : s[i] = sep /\ \A j \in (i + 1)..Len(s) : s[j] # sep
             ELSE 0)

SplitN2(s, sep) == CutAt(s, Index(s, sep))

\* strings.Join
RECURSIVE Join(_, _)
Join(ss, sep) ==
    IF Len(ss) = 0 THEN <<>>
    ELSE IF Len(ss) = 1 THEN ss[1]
    ELSE ss[1] \o sep \o Join(Tail(ss), sep)

(***************************************************************************)
(* parseKeyValuePairs and parseJSONKeyValuePairs.  A map[string]string is  *)
(* a function from strings to strings; what a parser returns is the map    *)
(* (isNil for Go's nil map), whether it returned an error, and the text    *)
(* the error message quotes from the input.                                *)
(***************************************************************************)
EmptyMap == [k \in {} |-> <<>>]

\* fault: an entry that is in the map already is kept
MapSetFirst(m, key, value) ==
    [k \in DOMAIN m \cup {key} |-> IF k \in DOMAIN m THEN m[k] ELSE value]

\* secrets[key] = value
MapSet(m, key, value) ==
    [k \in DOMAIN m \cup {key} |-> IF k = key THEN value ELSE m[k]]

\* return secrets, nil
Parsed(m) ==
    [secrets |-> m, isNil |-> FALSE, err |-> FALSE, quoted |-> <<>>, returned |-> TRUE]

\* return nil, fmt.Errorf(...), the message quoting q
ParseError(q) ==
    [secrets |-> EmptyMap, isNil |-> TRUE, err |-> TRUE, quoted |-> q, returned |-> TRUE]

\* parseKeyValuePairs, the loop over the lines from line i on: parseLine is
\* the body for the trimmed line, parsePair the part after the split
RECURSIVE parseLines(_, _, _)
parsePair(lines, i, secrets, line, key, value) ==
    IF key = <<>> \/ value = <<>>
    THEN ParseError(line)
    ELSE parseLines(lines, i + 1, MapSet(secrets, ToUpper(key), value))

parseParts(lines, i, secrets, line, parts) ==
    IF Len(parts) # 2
    THEN ParseError(line)
    ELSE parsePair(lines, i, secrets, line, TrimSpace(parts[1]), TrimSpace(parts[2]))

\* fault: a blank line is split like every other line
parseLineBlank(lines, i, secrets, line) ==
    parseParts(lines, i, secrets, line, SplitN2(line, "="))

parseLine(lines, i, secrets, line) ==
    IF line = <<>>
    THEN parseLines(lines, i + 1, secrets)
    ELSE parseParts(lines, i, secrets, line, SplitN2(line, "="))

parseLines(lines, i, secrets) ==
    IF i > Len(lines)
    THEN Parsed(secrets)
    ELSE parseLine(lines, i, secrets, TrimSpace(lines[i]))

(***************************************************************************)
(* json.Unmarshal into a map[string]string: the scanner of encoding/json   *)
(* over s.  A position is an index into s; a syntax error is the negated   *)
(* position of the character the scanner refuses, the negated position     *)
(* after the last character when the input ends too early.                 *)
(***************************************************************************)
\* the scanner's isSpace
IsJSONSpace(c) == c \in {" ", "\n", "\t", "\r"}

\* the first position from i on that holds no white space
RECURSIVE SkipSpace(_, _)
SkipSpace(s, i) ==
    IF i <= Len(s) /\ IsJSONSpace(s[i]) THEN SkipSpace(s, i + 1) ELSE i

\* characters below 0x20, which a string literal must escape
IsControl(c) == c \in {CharOf(n) : n \in 0..31}

HexDigits == Digits \cup {"a", "b", "c", "d", "e", "f", "A", "B", "C", "D", "E", "F"}

\* the value of a digit of base 16, and getu4: the number that the four
\* digits from i on stand for
HexVal(c) ==
    IF \E j \in 1..16 : HexChars[j] = c
    THEN (CHOOSE j \in 1..16 : HexChars[j] = c) - 1
    ELSE (CHOOSE j \in 1..6 : LowerLetters[j] = c) + 9

Getu4(s, i) ==
    4096 * HexVal(s[i]) + 256 * HexVal(s[i + 1]) + 16 * HexVal(s[i + 2]) + HexVal(s[i + 3])

\* a \uXXXX escape starts at i
IsUnicodeEscape(s, i) ==
    /\ i + 5 <= Len(s)
    /\ s[i] = "\\"
    /\ s[i + 1] = "u"
    /\ \A j \in (i + 2)..(i + 5) : s[j] \in HexDigits

\* utf16.IsSurrogate and utf16.DecodeRune: the code point of the surrogate
\* pair r1, r2, the replacement character U+FFFD (65533) when they are no
\* pair
IsSurrogate(r) == r >= 55296 /\ r < 57344

DecodeRune(r1, r2) ==
    IF r1 >= 55296 /\ r1 < 56320 /\ r2 >= 56320 /\ r2 < 57344
    THEN 65536 + (r1 - 55296) * 1024 + (r2 - 56320)
    ELSE 65533

\* the \uXXXX escape at i: the character it stands for and the position
\* after it.  A surrogate stands with the escape that follows it for one
\* character when the two are a pair, for U+FFFD on its own otherwise
Unicode(s, i) ==
    IF /\ IsSurrogate(Getu4(s, i + 2))
       /\ IsUnicodeEscape(s, i + 6)
       /\ DecodeRune(Getu4(s, i + 2), Getu4(s, i + 8)) # 65533
    THEN [char |-> CharOf(DecodeRune(Getu4(s, i + 2), Getu4(s, i + 8))), next |-> i + 12]
    ELSE IF IsSurrogate(Getu4(s, i + 2))
    THEN [char |-> CharOf(65533), next |-> i + 6]
    ELSE [char |-> CharOf(Getu4(s, i + 2)), next |-> i + 6]

\* fault: the letter of an escape is kept as it is
UnescapeNot(c) == c

\* the character a one-letter escape stands for
Unescape(c) ==
    IF c = "n" THEN "\n"
    ELSE IF c = "t" THEN "\t"
    ELSE IF c = "r" THEN "\r"
    ELSE IF c = "b" THEN CharOf(8)
    ELSE IF c = "f" THEN "\f"
    ELSE c

\* the first position from i to last that is past the end of s or holds no
\* digit of base 16
RECURSIVE FirstNoHex(_, _, _)
FirstNoHex(s, i, last) ==
    IF i > last \/ i > Len(s) \/ s[i] \notin HexDigits THEN i
    ELSE FirstNoHex(s, i + 1, last)

\* a string literal whose opening quote is at i - 1: the position after its
\* closing quote (negative: syntax error) and its unquoted text, read from
\* i on
RECURSIVE ScanString(_, _, _)
ScanUnicode(s, u, text) == ScanString(s, u.next, Append(text, u.char))

ScanString(s, i, text) ==
    IF i > Len(s) THEN [next |-> -i, text |-> <<>>]
    ELSE IF s[i] = "\"" THEN [next |-> i + 1, text |-> text]
    ELSE IF IsControl(s[i]) THEN [next |-> -i, text |-> <<>>]
    ELSE IF s[i] # "\\" THEN ScanString(s, i + 1, Append(text, s[i]))
    ELSE IF i + 1 > Len(s) THEN [next |-> -(i + 1), text |-> <<>>]
    ELSE IF s[i + 1] \in {"\"", "\\", "/", "b", "f", "n", "r", "t"}
    THEN ScanString(s, i + 2, Append(text, Unescape(s[i + 1])))
    ELSE IF s[i + 1] # "u" THEN [next |-> -(i + 1), text |-> <<>>]
    ELSE IF IsUnicodeEscape(s, i) THEN ScanUnicode(s, Unicode(s, i), text)
    ELSE [next |-> -FirstNoHex(s, i + 2, i + 5), text |-> <<>>]

\* the first position from i on that holds no digit
RECURSIVE SkipDigits(_, _)
SkipDigits(s, i) ==
    IF i <= Len(s) /\ s[i] \in Digits THEN SkipDigits(s, i + 1) ELSE i

\* a number that starts at i: the position after it, negative for a syntax
\* error.  The parts of a number in turn: the integer part from a on, the
\* fraction from b on, the exponent from c on, its digits from e on
ScanDigits(s, e, after) == IF after = e THEN -e ELSE after

ScanExponent(s, c) ==
    IF c < 0 THEN c
    ELSE IF c <= Len(s) /\ s[c] \in {"e", "E"}
    THEN IF c + 1 <= Len(s) /\ s[c + 1] \in {"+", "-"}
         THEN ScanDigits(s, c + 2, SkipDigits(s, c + 2))
         ELSE ScanDigits(s, c + 1, SkipDigits(s, c + 1))
    ELSE c

ScanFraction(s, b) ==
    IF b < 0 THEN b
    ELSE IF b <= Len(s) /\ s[b] = "."
    THEN ScanDigits(s, b + 1, SkipDigits(s, b + 1))
    ELSE b

ScanInteger(s, a) ==
    IF a > Len(s) \/ s[a] \notin Digits THEN -a
    ELSE IF s[a] = "0" THEN a + 1
    ELSE SkipDigits(s, a)

ScanNumber(s, i) ==
    ScanExponent(s, ScanFraction(s, ScanInteger(s, IF s[i] = "-" THEN i + 1 ELSE i)))

\* the literal w (true, false, null) at i: the position after it, or the
\* negated position of the first character that is not the literal's; j
\* counts the characters of w
RECURSIVE ScanLiteral(_, _, _, _)
ScanLiteral(s, i, w, j) ==
    IF j > Len(w) THEN i + Len(w)
    ELSE IF i + j - 1 > Len(s) \/ s[i + j - 1] # w[j] THEN -(i + j - 1)
    ELSE ScanLiteral(s, i, w, j + 1)

\* a value that starts at i (no white space before it): the position after
\* it, negative for a syntax error.  ScanMembers and ScanElements read the
\* rest of an object and of an array, i after the opening bracket or after
\* a comma; k is the position after a member's key, c that of its colon, v
\* the position after a value and e that of the comma or closing bracket
RECURSIVE ScanValue(_, _), ScanMembers(_, _, _), ScanElements(_, _, _)
ScanValue(s, i) ==
    IF i > Len(s) THEN -i
    ELSE IF s[i] = "\"" THEN ScanString(s, i + 1, <<>>).next
    ELSE IF s[i] = "{" THEN ScanMembers(s, SkipSpace(s, i + 1), TRUE)
    ELSE IF s[i] = "[" THEN ScanElements(s, SkipSpace(s, i + 1), TRUE)
    ELSE IF s[i] = "t" THEN ScanLiteral(s, i, <<"t", "r", "u", "e">>, 1)
    ELSE IF s[i] = "f" THEN ScanLiteral(s, i, <<"f", "a", "l", "s", "e">>, 1)
    ELSE IF s[i] = "n" THEN ScanLiteral(s, i, <<"n", "u", "l", "l">>, 1)
    ELSE IF s[i] = "-" \/ s[i] \in Digits THEN ScanNumber(s, i)
    ELSE -i

AfterKey(s, k) == IF k < 0 THEN k ELSE SkipSpace(s, k)

AfterColon(s, c) ==
    IF c < 0 THEN c
    ELSE IF c > Len(s) \/ s[c] # ":" THEN -c
    ELSE ScanValue(s, SkipSpace(s, c + 1))

AfterValue(s, v) == IF v < 0 THEN v ELSE SkipSpace(s, v)

MembersEnd(s, e) ==
    IF e < 0 THEN e
    ELSE IF e > Len(s) THEN -e
    ELSE IF s[e] = "}" THEN e + 1
    ELSE IF s[e] = "," THEN ScanMembers(s, SkipSpace(s, e + 1), FALSE)
    ELSE -e

ScanMembers(s, i, first) ==
    IF i > Len(s) THEN -i
    ELSE IF first /\ s[i] = "}" THEN i + 1
    ELSE IF s[i] # "\"" THEN -i
    ELSE MembersEnd(s, AfterValue(s, AfterColon(s,
             AfterKey(s, ScanString(s, i + 1, <<>>).next))))

ElementsEnd(s, e) ==
    IF e < 0 THEN e
    ELSE IF e > Len(s) THEN -e
    ELSE IF s[e] = "]" THEN e + 1
    ELSE IF s[e] = "," THEN ScanElements(s, SkipSpace(s, e + 1), FALSE)
    ELSE -e

ScanElements(s, i, first) ==
    IF i > Len(s) THEN -i
    ELSE IF first /\ s[i] = "]" THEN i + 1
    ELSE ElementsEnd(s, AfterValue(s, ScanValue(s, i)))

\* checkValid: s is one JSON value with white space around it, v the
\* position after the value.  SyntaxError is the position of the character
\* the scanner refuses, past the end of s when the input ends too early
EndsAt(s, v) == v > 0 /\ SkipSpace(s, v) = Len(s) + 1

Valid(s) == EndsAt(s, ScanValue(s, SkipSpace(s, 1)))

SyntaxError(s) ==
    IF ScanValue(s, SkipSpace(s, 1)) < 0
    THEN -ScanValue(s, SkipSpace(s, 1))
    ELSE SkipSpace(s, ScanValue(s, SkipSpace(s, 1)))

\* the first byte of the UTF-8 encoding of the code point n, and the code
\* point of a character outside ASCII
LeadByte(n) ==
    IF n < 128 THEN n
    ELSE IF n < 2048 THEN 192 + n \div 64
    ELSE IF n < 65536 THEN 224 + n \div 4096
    ELSE 240 + n \div 262144

CodeOf(c) == CHOOSE n \in 0..1114111 : CharOf(n) = c

\* quoteChar: the character a syntax error's message names: the character
\* at p, of a character outside ASCII its first byte, and none when the
\* input ended
QuoteChar(s, p) ==
    IF p > Len(s) THEN <<>>
    ELSE IF \E j \in 1..Len(Printable) : Printable[j] = s[p] THEN <<s[p]>>
    ELSE <<CharOf(LeadByte(CodeOf(s[p])))>>

\* the members of the valid object whose first member starts at i (i is at
\* the closing bracket when there is none), in the order of the text: key,
\* the kind of the value, and the text of a string value.  k is the scanned
\* key, c the position of the value and e the position after it
RECURSIVE Members(_, _)
Member(s, k, c) ==
    [key |-> k.text,
     kind |-> IF s[c] = "\"" THEN "string"
              ELSE IF s[c] = "n" THEN "null" ELSE "other",
     value |-> IF s[c] = "\"" THEN ScanString(s, c + 1, <<>>).text ELSE <<>>]

MembersRest(s, e) ==
    IF s[e] = "," THEN Members(s, SkipSpace(s, e + 1)) ELSE <<>>

MembersFrom(s, k, c) ==
    <<Member(s, k, c)>> \o MembersRest(s, SkipSpace(s, ScanValue(s, c)))

MembersKey(s, k) == MembersFrom(s, k, SkipSpace(s, SkipSpace(s, k.next) + 1))

Members(s, i) ==
    IF s[i] = "}" THEN <<>> ELSE MembersKey(s, ScanString(s, i + 1, <<>>))

\* the decoder's object(): the members stored into the map one after the
\* other, a later member replacing an earlier one with the same key; null
\* leaves the new element at its zero value, the empty string
RECURSIVE Store(_, _, _)
Store(ms, i, m) ==
    IF i > Len(ms) THEN m
    ELSE Store(ms, i + 1, MapSet(m, ms[i].key, ms[i].value))

\* json.Unmarshal([]byte(jsonStr), &rawSecrets): a syntax error, whose
\* message names the character in quoted, or a value that is neither a
\* string nor null (UnmarshalTypeError, which names none) is an error; the
\* value null leaves rawSecrets nil, a map without keys.  Decoded is the
\* outcome for the members ms of a valid object
Decoded(ms) ==
    [err |-> \E i \in 1..Len(ms) : ms[i].kind = "other",
     rawSecrets |-> Store(ms, 1, EmptyMap),
     quoted |-> <<>>]

Unmarshal(s) ==
    IF ~Valid(s)
    THEN [err |-> TRUE, rawSecrets |-> EmptyMap, quoted |-> QuoteChar(s, SyntaxError(s))]
    ELSE IF s[SkipSpace(s, 1)] = "n"
    THEN [err |-> FALSE, rawSecrets |-> EmptyMap, quoted |-> <<>>]
    ELSE IF s[SkipSpace(s, 1)] # "{"
    THEN [err |-> TRUE, rawSecrets |-> EmptyMap, quoted |-> <<>>]
    ELSE Decoded(Members(s, SkipSpace(s, SkipSpace(s, 1) + 1)))

\* parseJSONKeyValuePairs, the loop over rawSecrets in the order the range
\* statement happens to take: order lists the keys of rawSecrets
RECURSIVE rangeRawSecrets(_, _, _, _)
rangeEntry(rawSecrets, order, i, secrets, key, value) ==
    IF key = <<>>
    THEN ParseError(<<>>)
    ELSE IF value = <<>>
    THEN ParseError(key)
    ELSE rangeRawSecrets(rawSecrets, order, i + 1,
                         MapSet(secrets, ToUpper(key), value))

rangeRawSecrets(rawSecrets, order, i, secrets) ==
    IF i > Len(order)
    THEN Parsed(secrets)
    ELSE rangeEntry(rawSecrets, order, i, secrets,
                    TrimSpace(order[i]), rawSecrets[order[i]])

\* the orders in which a range statement can take the keys of a map
RangeOrders(m) ==
    {o \in [1..Cardinality(DOMAIN m) -> DOMAIN m] :
        \A i, j \in DOMAIN o : i # j => o[i] # o[j]}

\* parseJSONKeyValuePairs: what it can return on jsonStr, one outcome for
\* every order of the range over the decoded object u
rangeOutcomes(u) ==
    IF u.err
    THEN {ParseError(u.quoted)}
    ELSE {rangeRawSecrets(u.rawSecrets, order, 1, EmptyMap) :
              order \in RangeOrders(u.rawSecrets)}

parseJSONKeyValuePairs(jsonStr) == rangeOutcomes(Unmarshal(jsonStr))

\* parseKeyValuePairs: the format is detected on the trimmed input and the
\* input parsed; the set of what the call can return
\* fault: an input is taken for JSON as soon as it starts with a brace
StartsOnly(trimmed) == HasPrefix(trimmed, "{")

StartsAndEnds(trimmed) == HasPrefix(trimmed, "{") /\ HasSuffix(trimmed, "}")

IsJSON(raw) == raw # <<>> /\ StartsAndEnds(TrimSpace(raw))

parseKeyValuePairs(raw) ==
    IF raw = <<>>
    THEN {Parsed(EmptyMap)}
    ELSE IF IsJSON(raw)
    THEN parseJSONKeyValuePairs(TrimSpace(raw))
    ELSE {parseLines(Split(raw, "\n"), 1, EmptyMap)}

\* parseKeyValuePairs has not been called
NotCalled == [secrets |-> EmptyMap, isNil |-> TRUE, err |-> FALSE, quoted |-> <<>>,
              returned |-> FALSE]

(***************************************************************************)
(* Initial states: the arguments, the parsed mappings and the remote.     *)
(***************************************************************************)
\* the key entry name n is written with in the inputs, and the entry name a
\* key of a parsed mapping stands for
KeyOf(n) == <<LowerLetters[n]>>
NameOf(k) == CHOOSE n \in Names : <<UpperLetters[n]>> = k
NamesOf(m) == {NameOf(k) : k \in DOMAIN m}

\* the names of S in ascending order
RECURSIVE Ascending(_)
Ascending(S) ==
    IF S = {} THEN <<>>
    ELSE <<CHOOSE n \in S : \A o \in S : n <= o>>
         \o Ascending(S \ {CHOOSE n \in S : \A o \in S : n <= o})

\* a mapping with the names S written as KEY=VALUE lines and as a JSON object
LinesOf(names) == [i \in 1..Len(names) |-> KeyOf(names[i]) \o <<"=", "x">>]
KVText(S) == Join(LinesOf(Ascending(S)), <<"\n">>)
MembersOf(names) ==
    [i \in 1..Len(names) |-> <<"\"">> \o KeyOf(names[i]) \o <<"\"", ":", "\"", "x", "\"">>]
JSONText(S) == <<"{">> \o Join(MembersOf(Ascending(S)), <<",">>) \o <<"}">>

\* the secrets input: no entry, one name as JSON, all names but the first
\* as lines, and a line with a value and no key
SecretsTexts == {KVText({}), JSONText({1}), KVText(Names \ {1}), <<"=", "x">>}
\* the variables input: no entry, all names but the first, and a line
\* without '='
VariablesTexts == {KVText({}), KVText(Names \ {1}), <<"b">>}
\* every remote store starts empty, with all names but the last, or with all
ExistingSets == {{}, 1..(NumNames - 1), Names}

\* the inputs: every MaxRetries without the governor, one retry with it; a
\* target type that is one of the three or none of them ("foo"); the query
\* none or a search query; the target none, the repository 1 as owner/name,
\* or a name without an owner
ArgsSet ==
    [DryRun : BOOLEAN, Prune : BOOLEAN, Type : Types \cup {"foo"},
     Environment : {"", "env"}, MaxRetries : {-1, 0, 1, DefaultMaxRetries},
     Query : {"", "q"}, TargetRepo : {<<>>, <<"o", "/", "r">>, <<"r">>},
     RateLimit : {FALSE}, Secrets : SecretsTexts, Variables : VariablesTexts]
    \cup
    [DryRun : BOOLEAN, Prune : BOOLEAN, Type : Types \cup {"foo"},
     Environment : {"", "env"}, MaxRetries : {1},
     Query : {"", "q"}, TargetRepo : {<<>>, <<"o", "/", "r">>, <<"r">>}, RateLimit : {TRUE},
     Secrets : SecretsTexts, Variables : VariablesTexts]

\* the runs: an environment and an empty variables input with the type
\* actions only, the default number of retries for a target of type
\* dependabot only, a query with an environment without retries only
Inputs ==
    {a \in ArgsSet :
        /\ a.Type # Actions => a.Environment = "" /\ a.Variables # KVText({})
        /\ a.MaxRetries = DefaultMaxRetries => a.Query = "" /\ a.Type = Dependabot
        /\ a.Query # "" /\ a.Environment # "" => a.MaxRetries <= 0}

Init ==
    /\ args \in Inputs
    /\ secretsMap = {}
    /\ variablesMap = {}
    /\ ownerName \in
         IF args.Type = Actions /\ args.Environment # ""
         THEN {[r \in Repos |-> r], [r \in Repos |-> NoRepo],
               [r \in Repos |-> (r % NumRepos) + 1]}
         ELSE {[r \in Repos |-> r]}
    /\ \E e \in ExistingSets : store0 = [r \in Repos |-> [s \in Scopes |-> e]]
    /\ store = store0
    /\ pc = "main"
    /\ repos = <<>>
    /\ repoIdx = 1
    /\ hIdx = 1
    /\ processed = {}
    /\ op = [kind |-> "none", scope |-> "none", repo |-> NoRepo]
    /\ backoffOptions = Reset
    /\ invocations = 0
    /\ err = NoErr
    /\ page = 1
    /\ existingMap = {}
    /\ delLeft = {}
    /\ putLeft = {}
    /\ log = <<>>
    /\ calls = {}
    /\ core = NoQuota
    /\ rateLimitStatus = NoQuota
    /\ slept = 0
    /\ quotaFresh = FALSE
    /\ publicKey = NoPublicKey
    /\ secretsRaw = <<>>
    /\ parsed = NotCalled

(***************************************************************************)
(* Shared pieces of the actions.                                           *)
(***************************************************************************)
\* a remote call of kind k is issued and recorded
Issue(k, r, s, a, ok) ==
    /\ log' = Append(log, Call(k, r, s, a, ok, quotaFresh))
    /\ calls' = calls \cup {k}
    /\ quotaFresh' = FALSE

\* the running invocation returns e to backoff.Retry
Return(e) ==
    /\ err' = e
    /\ pc' = "returned"

\* backoff.Retry calls the operation o for the n-th time:
\* gitHubAPI.SearchRepositories, Sync* or Put* starts.  Sync* of an
\* environment store, and Put* of one unless it is a dry run, first fetch the
\* repository; a dry-run Put* returns at once without any call
Invoke(o, n) ==
    /\ invocations' = n
    /\ log' = <<>>
    /\ page' = 1
    /\ existingMap' = {}
    /\ delLeft' = {}
    /\ putLeft' = IF o.kind = "Search" THEN {} ELSE Mappings(o.scope)
    /\ IF o.kind = "Search"
       THEN pc' = "search" /\ err' = NoErr
       ELSE IF o.kind = "Sync"
       THEN pc' = (IF IsEnvScope(o.scope) THEN "syncGet" ELSE "list") /\ err' = NoErr
       ELSE IF dryRunEnabled
       THEN Return(NoErr)
       ELSE pc' = PutEntry(o.scope) /\ err' = NoErr

\* a method of retryableGitHubAPI is entered: backoff.Retry resets the
\* backoff and calls the operation for the first time
Retry(o) ==
    /\ op' = o
    /\ backoffOptions' = Reset
    /\ Invoke(o, 1)

\* a method of rateLimitedGitHubAPI is entered: ensureRatelimits runs before
\* the call is passed on
Gate(o) ==
    /\ op' = o
    /\ invocations' = 0
    /\ pc' = "ensureRatelimits"
    /\ UNCHANGED <<backoffOptions, err, page, existingMap, delLeft, putLeft, log>>

\* NewGitHubAPI: the client main calls is the rate-limit decorator around the
\* retry decorator when args.RateLimit is set, the retry decorator otherwise
Gated(o) == IF args.RateLimit THEN Gate(o) ELSE Retry(o)

(***************************************************************************)
(* main and processRepository.                                             *)
(***************************************************************************)
\* what parseKeyValuePairs can return on each input text of the runs
Parses == [raw \in SecretsTexts \cup VariablesTexts |-> parseKeyValuePairs(raw)]

\* fault: main goes on after a parse error
ParseFatalNot(p) == FALSE

\* if err != nil { log.Fatalf(...) } after a call of parseKeyValuePairs
ParseFatal(p) == p.err

\* if (args.TargetRepo != "" && args.Query != "") ||
\*    (args.TargetRepo == "" && args.Query == "") { log.Fatal(...) }
ValidTarget(a) == (a.TargetRepo # <<>>) # (a.Query # "")

\* parseRepoFullName: fullName is owner/name, both of them not empty;
\* anything else ends the run with log.Fatalf
parseRepoFullName(fullName) ==
    /\ Len(SplitN2(fullName, "/")) = 2
    /\ SplitN2(fullName, "/")[1] # <<>>
    /\ SplitN2(fullName, "/")[2] # <<>>

\* main: a negative max-retries, and a target and a query that are both
\* given or both missing, end the run with log.Fatal; the secrets and the
\* variables input are parsed, and a parse error ends the run with
\* log.Fatalf; a query is searched for; a target is the one repository to
\* process, and one that is no owner/name ends the run with log.Fatalf
Main ==
    /\ pc = "main"
    /\ IF ~ValidMaxRetries(args.MaxRetries)
       THEN /\ pc' = "fatal"
            /\ UNCHANGED <<secretsMap, variablesMap, parseVars, repos, op, backoffOptions,
                           invocations, err, page, existingMap, delLeft, putLeft, log>>
       ELSE IF ~ValidTarget(args)
       THEN /\ pc' = "fatal"
            /\ UNCHANGED <<secretsMap, variablesMap, parseVars, repos, op, backoffOptions,
                           invocations, err, page, existingMap, delLeft, putLeft, log>>
       ELSE \E p \in Parses[args.Secrets] :
            \E q \in Parses[args.Variables] :
                IF ParseFatal(p)
                THEN /\ pc' = "fatal"
                     /\ secretsRaw' = args.Secrets
                     /\ parsed' = p
                     /\ UNCHANGED <<secretsMap, variablesMap, repos, op, backoffOptions,
                                    invocations, err, page, existingMap, delLeft,
                                    putLeft, log>>
                ELSE IF ParseFatal(q)
                THEN /\ pc' = "fatal"
                     /\ secretsRaw' = args.Variables
                     /\ parsed' = q
                     /\ UNCHANGED <<secretsMap, variablesMap, repos, op, backoffOptions,
                                    invocations, err, page, existingMap, delLeft,
                                    putLeft, log>>
                ELSE /\ secretsMap' = NamesOf(p.secrets)
                     /\ variablesMap' = NamesOf(q.secrets)
                     /\ secretsRaw' = args.Variables
                     /\ parsed' = q
                     /\ IF args.Query # ""
                        THEN /\ Gated([kind |-> "Search", scope |-> "none", repo |-> NoRepo])
                             /\ UNCHANGED repos
                        ELSE IF parseRepoFullName(args.TargetRepo)
                        THEN /\ repos' = <<1>>
                             /\ pc' = "handle"
                             /\ UNCHANGED <<op, backoffOptions, invocations, err, page,
                                            existingMap, delLeft, putLeft, log>>
                        ELSE /\ pc' = "fatal"
                             /\ UNCHANGED <<repos, op, backoffOptions, invocations, err,
                                            page, existingMap, delLeft, putLeft, log>>
    /\ UNCHANGED <<govVars, publicKey>>
    /\ UNCHANGED <<args, ownerName, store0, store, repoIdx, hIdx, processed, calls,
                   quotaFresh>>

\* processRepository and its handle* functions, one handler a step: a
\* target type that is none of the three ends the run with log.Fatalf; a
\* handler with an empty mapping returns at once, otherwise it calls Sync*
\* (prune) or Put*.  After the last handler processRepository returns and
\* main goes on to the next repository, if any
Handle ==
    /\ pc = "handle"
    /\ IF UnsupportedTarget(args)
       THEN /\ pc' = "fatal"
            /\ UNCHANGED <<hIdx, processed, repoIdx, op, backoffOptions, invocations,
                           err, page, existingMap, delLeft, putLeft, log>>
       ELSE IF hIdx > Len(Handlers(args))
       THEN /\ processed' = processed \cup {repos[repoIdx]}
            /\ repoIdx' = repoIdx + 1
            /\ hIdx' = 1
            /\ pc' = IF repoIdx + 1 > Len(repos) THEN "done" ELSE "handle"
            /\ UNCHANGED <<op, backoffOptions, invocations, err, page, existingMap,
                           delLeft, putLeft, log>>
       ELSE IF Mappings(Handlers(args)[hIdx]) = {}
       THEN /\ hIdx' = hIdx + 1
            /\ UNCHANGED <<pc, processed, repoIdx, op, backoffOptions, invocations,
                           err, page, existingMap, delLeft, putLeft, log>>
       ELSE /\ Gated([kind |-> HandlerOp(args.Prune),
                      scope |-> Handlers(args)[hIdx], repo |-> repos[repoIdx]])
            /\ UNCHANGED <<hIdx, processed, repoIdx>>
    /\ UNCHANGED <<govVars, publicKey>>
    /\ UNCHANGED parseVars
    /\ UNCHANGED <<args, secretsMap, variablesMap, ownerName, store0, store, repos,
                   calls, quotaFresh>>

(***************************************************************************)
(* rateLimitedGitHubAPI: ensureRatelimits before the call is passed on.   *)
(***************************************************************************)
\* ensureRatelimits: the quota is fetched; a failed fetch is logged, leaves
\* no quota and the call goes ahead, a quota near the limit starts
\* waitForRateLimitReset
EnsureRatelimits ==
    /\ pc = "ensureRatelimits"
    /\ \E ok \in Outcomes(FALSE) :
         IF ok
         THEN \E c \in CoreStates :
                  /\ core' = c
                  /\ rateLimitStatus' = c
                  /\ pc' = IF NearLimit(c) THEN "waitForRateLimitReset" ELSE "delegate"
         ELSE /\ pc' = FetchFailed(pc)
              /\ core' = NoQuota
              /\ UNCHANGED rateLimitStatus
    /\ calls' = calls \cup {"ratelimit"}
    /\ quotaFresh' = TRUE
    /\ UNCHANGED parseVars
    /\ UNCHANGED <<args, secretsMap, variablesMap, ownerName, store0, store, repos,
                   repoIdx, hIdx, processed, op, backoffOptions, invocations, err,
                   page, existingMap, delLeft, putLeft, log, slept, publicKey>>

\* waitForRateLimitReset, the top of its loop: the quota is fetched again; a
\* failed fetch or a reset time that is not ahead ends the wait, otherwise
\* the governor goes to sleep
WaitForRateLimitReset ==
    /\ pc = "waitForRateLimitReset"
    /\ \E ok \in Outcomes(FALSE) :
         IF ok
         THEN \E c \in NextWindow(core) :
                  /\ core' = c
                  /\ pc' = IF TimeToWait(c) > 0 THEN "sleep" ELSE "delegate"
         ELSE /\ pc' = FetchFailed(pc)
              /\ core' = NoQuota
    /\ calls' = calls \cup {"ratelimit"}
    /\ quotaFresh' = TRUE
    /\ UNCHANGED parseVars
    /\ UNCHANGED <<args, secretsMap, variablesMap, ownerName, store0, store, repos,
                   repoIdx, hIdx, processed, op, backoffOptions, invocations, err,
                   page, existingMap, delLeft, putLeft, log, rateLimitStatus,
                   slept, publicKey>>

\* waitForRateLimitReset, time.Sleep(timeToWait + time.Second): the governor
\* wakes up one second after the reset time it was told, and loops
Sleep ==
    /\ pc = "sleep"
    /\ slept' = Slept(slept, SleepFor(core))
    /\ core' = [core EXCEPT !.untilReset = TimeToWait(core) - SleepFor(core)]
    /\ pc' = "waitForRateLimitReset"
    /\ UNCHANGED parseVars
    /\ UNCHANGED <<args, secretsMap, variablesMap, ownerName, store0, store, repos,
                   repoIdx, hIdx, processed, op, backoffOptions, invocations, err,
                   page, existingMap, delLeft, putLeft, log, calls,
                   rateLimitStatus, quotaFresh, publicKey>>

\* rateLimitedGitHubAPI methods after ensureRatelimits: return r.client.X(...),
\* the call is passed on to the retry decorator.  The quota is not tracked
\* until the next gated call, which finds an arbitrary one
Delegate ==
    /\ pc = "delegate"
    /\ Retry(op)
    /\ core' = NoQuota
    /\ rateLimitStatus' = NoQuota
    /\ slept' = 0
    /\ UNCHANGED parseVars
    /\ UNCHANGED <<args, secretsMap, variablesMap, ownerName, store0, store, repos,
                   repoIdx, hIdx, processed, calls, quotaFresh, publicKey>>

(***************************************************************************)
(* retryableGitHubAPI: backoff.Retry around the whole operation.          *)
(***************************************************************************)
\* backoff.Retry after the operation returned: success ends it, Stop from
\* NextBackOff ends it with the error, anything else sleeps and calls the
\* operation again.  ran is the time the invocation that has just returned
\* took: none to speak of, or as long as the backoff allows the retries to
\* take in all
Backoff ==
    /\ pc = "returned"
    /\ IF err = NoErr
       THEN /\ pc' = "opDone"
            /\ UNCHANGED <<backoffOptions, invocations, err>>
       ELSE \E ran \in {0, MaxElapsedTime} :
            \E next \in RandomizedInterval(backoffOptions) :
                IF NextBackOffStop(args.MaxRetries, backoffOptions,
                                   GetElapsedTime(backoffOptions, ran), next)
                THEN /\ pc' = "opDone"
                     /\ err' = RetryErr(err)
                     /\ backoffOptions' =
                          IF MaxRetriesStop(args.MaxRetries, backoffOptions.numTries)
                          THEN backoffOptions
                          ELSE [numTries |-> backoffOptions.numTries + 1,
                                currentInterval |-> IncrementCurrentInterval(backoffOptions),
                                elapsed |-> GetElapsedTime(backoffOptions, ran),
                                next |-> 0]
                     /\ UNCHANGED invocations
                ELSE /\ pc' = "timer"
                     /\ backoffOptions' =
                          [numTries |-> backoffOptions.numTries + 1,
                           currentInterval |-> IncrementCurrentInterval(backoffOptions),
                           elapsed |-> GetElapsedTime(backoffOptions, ran),
                           next |-> next]
                     /\ UNCHANGED <<invocations, err>>
    /\ UNCHANGED <<page, existingMap, delLeft, putLeft, log>>
    /\ UNCHANGED <<govVars, publicKey>>
    /\ UNCHANGED parseVars
    /\ UNCHANGED <<args, secretsMap, variablesMap, ownerName, store0, store, repos,
                   repoIdx, hIdx, processed, op, calls, quotaFresh>>

\* backoff.Retry: the timer started with the interval NextBackOff returned
\* fires, and the operation is invoked again
Timer ==
    /\ pc = "timer"
    /\ backoffOptions' =
         [backoffOptions EXCEPT !.elapsed = backoffOptions.elapsed + backoffOptions.next,
                                !.next = 0]
    /\ Invoke(op, invocations + 1)
    /\ UNCHANGED <<govVars, publicKey>>
    /\ UNCHANGED parseVars
    /\ UNCHANGED <<args, secretsMap, variablesMap, ownerName, store0, store, repos,
                   repoIdx, hIdx, processed, op, calls, quotaFresh>>

\* the caller of the decorated operation: main and the handle* functions end
\* the process with log.Fatalf on an error
OpDone ==
    /\ pc = "opDone"
    /\ IF err # NoErr
       THEN pc' = "fatal" /\ UNCHANGED hIdx
       ELSE IF op.kind = "Search"
       THEN pc' = (IF repos = <<>> THEN "done" ELSE "handle") /\ UNCHANGED hIdx
       ELSE pc' = "handle" /\ hIdx' = hIdx + 1
    /\ UNCHANGED <<govVars, publicKey>>
    /\ UNCHANGED parseVars
    /\ UNCHANGED <<args, secretsMap, variablesMap, ownerName, store0, store, repos,
                   repoIdx, processed, op, backoffOptions, invocations, err, page,
                   existingMap, delLeft, putLeft, log, calls, quotaFresh>>

(***************************************************************************)
(* gitHubAPI: the remote calls of SearchRepositories, Sync* and Put*.     *)
(***************************************************************************)
\* SearchRepositories: one page of api.client.Search.Repositories; every
\* repository of the remote matches the query
Search ==
    /\ pc = "search"
    /\ \E ok \in Outcomes(FALSE) :
         /\ Issue("search", NoRepo, "none", page, ok)
         /\ IF ~ok
            THEN Return([kind |-> "search", arg |-> page]) /\ UNCHANGED <<repos, page>>
            ELSE /\ repos' = (IF page = 1 THEN <<>> ELSE repos) \o
                       [i \in 1..Cardinality(PageOf(Repos, page)) |->
                            (page - 1) * PerPage + i]
                 /\ IF NextPage(Repos, page) = 0
                    THEN Return(NoErr) /\ UNCHANGED page
                    ELSE page' = NextPage(Repos, page) /\ UNCHANGED <<pc, err>>
    /\ UNCHANGED <<govVars, publicKey>>
    /\ UNCHANGED parseVars
    /\ UNCHANGED <<args, secretsMap, variablesMap, ownerName, store0, store,
                   repoIdx, hIdx, processed, op, backoffOptions, invocations,
                   existingMap, delLeft, putLeft>>

\* SyncEnv* and PutEnv*: api.client.Repositories.Get(ctx, owner, repo)
RepositoriesGet ==
    /\ pc \in {"syncGet", "putGet"}
    /\ \E ok \in Outcomes(FALSE) :
         /\ Issue("get", op.repo, op.scope, 0, ok)
         /\ IF ~ok
            THEN Return([kind |-> "get", arg |-> 0])
            ELSE /\ pc' = IF pc = "syncGet" THEN "list"
                          ELSE IF IsVariableScope(op.scope) THEN "upsert" ELSE "key"
                 /\ UNCHANGED err
    /\ UNCHANGED <<govVars, publicKey>>
    /\ UNCHANGED parseVars
    /\ UNCHANGED <<args, secretsMap, variablesMap, ownerName, store0, store, repos,
                   repoIdx, hIdx, processed, op, backoffOptions, invocations, page,
                   existingMap, delLeft, putLeft>>

\* Sync*: one turn of the listing loop.  A failed page returns the error; the
\* last page ends a dry run, and otherwise starts the delete loop
List ==
    /\ pc = "list"
    /\ LET a == Addr(op.scope, op.repo)
       IN \E ok \in Outcomes(a = NoRepo) :
            LET listed == IF ok THEN PageOf(store[a][op.scope], page) ELSE {}
                next == IF ok THEN NextPage(store[a][op.scope], page) ELSE 0
                existing == existingMap \cup listed
                e == ListErr(ok, page)
            IN /\ Issue("list", a, op.scope, page, ok)
               /\ IF e # NoErr
                  THEN /\ Return(e)
                       /\ UNCHANGED <<page, existingMap, delLeft>>
                  ELSE IF next # 0
                  THEN /\ page' = next
                       /\ existingMap' = (IF dryRunEnabled THEN existingMap ELSE existing)
                       /\ UNCHANGED <<pc, err, delLeft>>
                  ELSE IF dryRunEnabled
                  THEN /\ Return(NoErr)
                       /\ UNCHANGED <<page, existingMap, delLeft>>
                  ELSE /\ existingMap' = existing
                       /\ delLeft' = ToDelete(existing, Mappings(op.scope))
                       /\ pc' = IF ToDelete(existing, Mappings(op.scope)) = {}
                                THEN PutEntry(op.scope) ELSE "delete"
                       /\ UNCHANGED <<page, err>>
    /\ UNCHANGED <<govVars, publicKey>>
    /\ UNCHANGED parseVars
    /\ UNCHANGED <<args, secretsMap, variablesMap, ownerName, store0, store, repos,
                   repoIdx, hIdx, processed, op, backoffOptions, invocations,
                   putLeft>>

\* Sync*: one delete of the loop over existingMap (map order: any name
\* left); a failed delete returns the error, the last one calls Put*
Delete ==
    /\ pc = "delete"
    /\ \E n \in delLeft :
         LET a == Addr(op.scope, op.repo)
         IN \E ok \in Outcomes(a = NoRepo \/ n \notin store[a][op.scope]) :
              LET e == DeleteErr(ok, n)
              IN /\ Issue("delete", a, op.scope, n, ok)
                 /\ store' = IF ok THEN [store EXCEPT ![a][op.scope] = @ \ {n}]
                                   ELSE store
                 /\ IF e # NoErr
                    THEN /\ Return(e)
                         /\ UNCHANGED delLeft
                    ELSE /\ delLeft' = delLeft \ {n}
                         /\ pc' = IF delLeft = {n} THEN PutEntry(op.scope) ELSE "delete"
                         /\ UNCHANGED err
    /\ UNCHANGED <<govVars, publicKey>>
    /\ UNCHANGED parseVars
    /\ UNCHANGED <<args, secretsMap, variablesMap, ownerName, store0, repos,
                   repoIdx, hIdx, processed, op, backoffOptions, invocations, page,
                   existingMap, putLeft>>

\* Put*Secrets: Get*PublicKey, once, before the loop over mappings
GetPublicKey ==
    /\ pc = "key"
    /\ \E ok \in Outcomes(FALSE) :
         /\ Issue("key", op.repo, op.scope, 0, ok)
         /\ \E std \in BOOLEAN :
              publicKey' = IF ok THEN PublicKey(KeyID(op.repo, op.scope), std)
                                 ELSE NoPublicKey
         /\ IF ~ok
            THEN Return([kind |-> "key", arg |-> 0])
            ELSE IF putLeft = {}
            THEN Return(NoErr)
            ELSE pc' = "upsert" /\ UNCHANGED err
    /\ UNCHANGED govVars
    /\ UNCHANGED parseVars
    /\ UNCHANGED <<args, secretsMap, variablesMap, ownerName, store0, store, repos,
                   repoIdx, hIdx, processed, op, backoffOptions, invocations, page,
                   existingMap, delLeft, putLeft>>

\* the remote's answer to Actions.Create*Variable in store s of repository a:
\* a name that exists there (or a repository that does not exist) is rejected
CreateRejected(a, s, n) == a = NoRepo \/ n \in store[a][s]

\* the remote's answer to Actions.UpdateEnvVariable: a name that does not
\* exist there is rejected
UpdateRejected(a, s, n) == a = NoRepo \/ n \notin store[a][s]

\* the outcomes CreateOrUpdate* can have for name n in store s of repository
\* a: secrets are created or overwritten by one call, a repository variable
\* is created, an environment variable is updated or else created
UpsertOutcomes(a, s, n) ==
    IF s = "repoVariables"
    THEN Outcomes(CreateRejected(a, s, n))
    ELSE IF s = "envVariables"
    THEN {u \/ c : u \in Outcomes(UpdateRejected(a, s, n)),
                    c \in Outcomes(CreateRejected(a, s, n))}
    ELSE Outcomes(FALSE)

\* Put*Secrets: one turn of the loop over mappings (map order: any name
\* left): the value is sealed, which fails when the key does not decode, and
\* sent with CreateOrUpdate*Secret, which creates or overwrites the entry
CreateOrUpdateSecret ==
    /\ pc = "upsert"
    /\ ~IsVariableScope(op.scope)
    /\ \E n \in putLeft :
         IF SealErr(encryptSecretWithPublicKey(publicKey, n).err, n) # NoErr
         THEN /\ Return(SealErr(encryptSecretWithPublicKey(publicKey, n).err, n))
              /\ UNCHANGED <<store, putLeft, log, calls, quotaFresh>>
         ELSE \E ok \in UpsertOutcomes(op.repo, op.scope, n) :
              /\ LET secret == encryptSecretWithPublicKey(publicKey, n)
                 IN log' = Append(log, [Call("put", op.repo, op.scope, secret.Name,
                                            ok, quotaFresh)
                                          EXCEPT !.keyID = secret.KeyID])
              /\ calls' = calls \cup {"put"}
              /\ quotaFresh' = FALSE
              /\ IF PutErr(ok, n) # NoErr
                 THEN /\ Return(PutErr(ok, n))
                      /\ UNCHANGED <<store, putLeft>>
                 ELSE /\ store' = [store EXCEPT ![op.repo][op.scope] = @ \cup {n}]
                      /\ putLeft' = putLeft \ {n}
                      /\ IF putLeft = {n}
                         THEN Return(NoErr)
                         ELSE pc' = PutLoop(op.scope) /\ UNCHANGED err
    /\ UNCHANGED <<govVars, publicKey>>
    /\ UNCHANGED parseVars
    /\ UNCHANGED <<args, secretsMap, variablesMap, ownerName, store0, repos,
                   repoIdx, hIdx, processed, op, backoffOptions, invocations, page,
                   existingMap, delLeft>>

\* PutRepoVariables: one turn of the loop; CreateOrUpdateRepoVariable calls
\* Actions.CreateRepoVariable, which the remote rejects for an existing name
CreateOrUpdateRepoVariable ==
    /\ pc = "upsert"
    /\ op.scope = "repoVariables"
    /\ \E n \in putLeft :
         \E ok \in UpsertOutcomes(op.repo, op.scope, n) :
              /\ Issue("create", op.repo, op.scope, n, ok)
              /\ IF ~ok
                 THEN /\ Return([kind |-> "create", arg |-> n])
                      /\ UNCHANGED <<store, putLeft>>
                 ELSE /\ store' = [store EXCEPT ![op.repo][op.scope] = @ \cup {n}]
                      /\ putLeft' = putLeft \ {n}
                      /\ IF putLeft = {n}
                         THEN Return(NoErr)
                         ELSE UNCHANGED <<pc, err>>
    /\ UNCHANGED <<govVars, publicKey>>
    /\ UNCHANGED parseVars
    /\ UNCHANGED <<args, secretsMap, variablesMap, ownerName, store0, repos,
                   repoIdx, hIdx, processed, op, backoffOptions, invocations, page,
                   existingMap, delLeft>>

\* PutEnvVariables: one turn of the loop; CreateOrUpdateEnvVariable calls
\* Actions.UpdateEnvVariable and, when that fails, Actions.CreateEnvVariable.
\* The remote rejects an update of a missing name and a create of an
\* existing one.  A failed update leaves the create to be sent next
CreateOrUpdateEnvVariable ==
    /\ pc = "upsert"
    /\ op.scope = "envVariables"
    /\ \E n \in putLeft :
         \E updated \in Outcomes(UpdateRejected(Addr(op.scope, op.repo), op.scope, n)) :
              /\ Issue("update", Addr(op.scope, op.repo), op.scope, n, updated)
              /\ IF ~updated
                 THEN /\ pc' = "createEnvVariable"
                      /\ UNCHANGED <<store, putLeft, err>>
                 ELSE /\ store' = [store EXCEPT ![Addr(op.scope, op.repo)][op.scope] = @ \cup {n}]
                      /\ putLeft' = putLeft \ {n}
                      /\ IF putLeft = {n}
                         THEN Return(NoErr)
                         ELSE UNCHANGED <<pc, err>>
    /\ UNCHANGED <<govVars, publicKey>>
    /\ UNCHANGED parseVars
    /\ UNCHANGED <<args, secretsMap, variablesMap, ownerName, store0, repos,
                   repoIdx, hIdx, processed, op, backoffOptions, invocations, page,
                   existingMap, delLeft>>

\* the variable whose update has just failed
Pending == log[Len(log)].arg

\* gitHubAPI.CreateOrUpdateEnvVariable after the update has failed: the
\* variable is created; the error of a failed create is returned, and Put*
\* returns it
CreateEnvVariable ==
    /\ pc = "createEnvVariable"
    /\ \E created \in Outcomes(CreateRejected(Addr(op.scope, op.repo), op.scope, Pending)) :
         /\ Issue("create", Addr(op.scope, op.repo), op.scope, Pending, created)
         /\ IF ~created
            THEN /\ Return([kind |-> "create", arg |-> Pending])
                 /\ UNCHANGED <<store, putLeft>>
            ELSE /\ store' = [store EXCEPT ![Addr(op.scope, op.repo)][op.scope] =
                                               @ \cup {Pending}]
                 /\ putLeft' = putLeft \ {Pending}
                 /\ IF putLeft = {Pending}
                    THEN Return(NoErr)
                    ELSE pc' = "upsert" /\ UNCHANGED err
    /\ UNCHANGED <<govVars, publicKey>>
    /\ UNCHANGED parseVars
    /\ UNCHANGED <<args, secretsMap, variablesMap, ownerName, store0, repos,
                   repoIdx, hIdx, processed, op, backoffOptions, invocations, page,
                   existingMap, delLeft>>

Next ==
    \/ Main
    \/ Handle
    \/ EnsureRatelimits
    \/ WaitForRateLimitReset
    \/ Sleep
    \/ Delegate
    \/ Backoff
    \/ Timer
    \/ OpDone
    \/ Search
    \/ RepositoriesGet
    \/ List
    \/ Delete
    \/ GetPublicKey
    \/ CreateOrUpdateSecret
    \/ CreateOrUpdateRepoVariable
    \/ CreateOrUpdateEnvVariable
    \/ CreateEnvVariable

Spec == Init /\ [][Next]_vars

\* the process keeps running: some step is taken whenever one can be
FairSpec == Init /\ [][Next]_vars /\ WF_vars(Next)

(***************************************************************************)
(* parseKeyValuePairs called on its own, as main_test.go does, on every    *)
(* input of a bounded family.                                              *)
(***************************************************************************)
\* the strings of ss joined by sep
\* keys of the lines: none, lower and upper case of one name, one that
\* starts with a brace
KVKeys == {<<>>, <<"a">>, <<"A">>, <<"{", "b">>}

\* values of the lines: none, plain, with '=' inside, in braces
KVValues == {<<>>, <<"x">>, <<"x", "=", "y">>, <<"{", "x", "}">>}

\* the lines: key=value for every key and value, one key with white space
\* around key and value, lines without '=', blank lines
KVLineSet ==
    {k \o <<"=">> \o v : k \in KVKeys, v \in KVValues}
    \cup {<<" ", "a", " ", "=", " ">> \o v \o <<" ">> : v \in {<<>>, <<"x">>, <<"x", "=", "y">>}}
    \cup {<<"a">>, <<"x", "y">>}
    \cup {<<>>, <<" ", "\t">>}

\* inputs of up to MaxLines lines
KVInputs ==
    {Join(ls, <<"\n">>) : ls \in UNION {[1..n -> KVLineSet] : n \in 1..MaxLines}}

\* keys of the members: empty, blank, one name, the same name in upper case
\* after white space, another name
JSONKeys == {<<>>, <<" ">>, <<"a">>, <<" ", "A">>, <<"b">>}

\* values of the members: a string, the empty string, a string with white
\* space around it, a string with an escaped newline, a number, null, an
\* array, and text that is no JSON value
JSONValues ==
    {<<"\"", "x", "\"">>, <<"\"", "\"">>, <<"\"", " ", "x", " ", "\"">>,
     <<"\"", "x", "\\", "n", "y", "\"">>, <<"1">>, <<"n", "u", "l", "l">>,
     <<"[", "\"", "x", "\"", "]">>, <<"x">>}

\* one member, sp between its parts
JSONMember(k, v, sp) == <<"\"">> \o k \o <<"\"">> \o sp \o <<":">> \o sp \o v

\* objects of up to MaxMembers members, written without white space and
\* with a blank between all parts and around the object
JSONInputs ==
    {sp \o <<"{">> \o sp \o Join(ms, <<",">> \o sp) \o sp \o <<"}">> \o sp :
        sp \in {<<>>, <<" ">>},
        ms \in UNION {[1..n -> {JSONMember(k, v, <<>>) : k \in JSONKeys, v \in JSONValues}] :
                         n \in 0..MaxMembers}}

\* the inputs: the lines, the objects, and inputs with characters outside
\* ASCII and with white space other than blank, tab and newline: a line with a form feed and a no-break space
\* around a key with an accent, an object with a form feed before it whose
\* key is written as an escape, an object with a form feed in a key, and one
\* with a letter outside ASCII in place of a value; two lines whose keys, a
\* dotless i and an i, have the same upper case, and an object with a Greek
\* key
ParseInputs ==
    KVInputs \cup JSONInputs \cup
    {<<"\f", "U+00E9", "\f", "=", "U+00A0", "x">>,
     <<"\f", "{", "\"", "\\", "u", "0", "0", "6", "1", "\"", ":", "\"", "x", "\"", "}", "U+00A0">>,
     <<"{", "\"", "\f", "\"", ":", "\"", "x", "\"", "}">>,
     <<"{", "\"", "a", "\"", ":", "U+00E9", "}">>,
     <<"U+0131", "=", "x", "\n", "i", "=", "y">>,
     <<"{", "\"", "U+03B1", "\"", ":", "\"", "x", "\"", "}">>}

\* main does not run
ParseInit ==
    /\ secretsRaw \in ParseInputs
    /\ parsed = NotCalled
    /\ args = [DryRun |-> FALSE, Prune |-> FALSE, Type |-> Actions, Environment |-> "",
               MaxRetries |-> DefaultMaxRetries, Query |-> "", TargetRepo |-> <<"o", "/", "r">>, RateLimit |-> FALSE,
               Secrets |-> <<>>, Variables |-> <<>>]
    /\ secretsMap = {}
    /\ variablesMap = {}
    /\ ownerName = [r \in Repos |-> r]
    /\ store0 = [r \in Repos |-> [s \in Scopes |-> {}]]
    /\ store = store0
    /\ pc = "main"
    /\ repos = <<>>
    /\ repoIdx = 1
    /\ hIdx = 1
    /\ processed = {}
    /\ op = [kind |-> "none", scope |-> "none", repo |-> NoRepo]
    /\ backoffOptions = Reset
    /\ invocations = 0
    /\ err = NoErr
    /\ page = 1
    /\ existingMap = {}
    /\ delLeft = {}
    /\ putLeft = {}
    /\ log = <<>>
    /\ calls = {}
    /\ core = NoQuota
    /\ rateLimitStatus = NoQuota
    /\ slept = 0
    /\ quotaFresh = FALSE
    /\ publicKey = NoPublicKey

\* parseKeyValuePairs(secretsRaw) runs and returns
ParseKeyValuePairs ==
    /\ ~parsed.returned
    /\ parsed' \in parseKeyValuePairs(secretsRaw)
    /\ UNCHANGED <<secretsRaw, mainVars>>

ParseNext == ParseKeyValuePairs

ParseSpec == ParseInit /\ [][ParseNext]_vars

(***************************************************************************)
(* Vocabulary of the properties.                                           *)
(***************************************************************************)
\* the call kinds that change the remote
Mutating == {"delete", "put", "create", "update"}
\* the call kinds that create or overwrite an entry
Upserting == {"put", "create", "update"}

\* names the calls of kind K of the current invocation were issued for
LogNames(K) == {log[i].arg : i \in {j \in 1..Len(log) : log[j].kind \in K}}
\* pages the successful list calls of the current invocation fetched
LogPages == {log[i].arg : i \in {j \in 1..Len(log) : log[j].kind = "list" /\ log[j].ok}}
\* every call of the current invocation succeeded
AllOk == \A i \in 1..Len(log) : log[i].ok
\* number of pages the remote serves a set in
NumPages(S) == IF S = {} THEN 1 ELSE (Cardinality(S) + PerPage - 1) \div PerPage
\* the repositories main iterates over
ReposSet == {repos[i] : i \in 1..Len(repos)}
\* a Sync* invocation has returned to backoff.Retry
SyncReturned == pc = "returned" /\ op.kind = "Sync"

(***************************************************************************)
(* Properties.                                                             *)
(***************************************************************************)
\* C1: with dry-run enabled no create, update or delete call is ever issued
\* and every remote store keeps its initial entries, while a Sync that
\* returns success has fetched every page of the listing.
C1_DryRunSyncOnlyLists ==
    args.DryRun =>
        /\ calls \cap Mutating = {}
        /\ store = store0
        /\ (SyncReturned /\ err = NoErr =>
                LogPages = 1..NumPages(store[Addr(op.scope, op.repo)][op.scope]))

C1_Witness ==
    /\ args.DryRun
    /\ SyncReturned
    /\ err = NoErr
    /\ Cardinality(LogPages) >= 2
    /\ store[op.repo][op.scope] \ Mappings(op.scope) # {}
    /\ Mappings(op.scope) # {}

\* C2: with dry-run off, when a Sync on any store has returned success to
\* its caller, the names in that store of the processed repository are
\* exactly the keys of the desired mapping.
C2_SyncSuccessEqualsDesired ==
    (pc = "opDone" /\ op.kind = "Sync" /\ ~args.DryRun /\ err = NoErr) =>
        store[op.repo][op.scope] = Mappings(op.scope)

\* C3: with prune set and dry-run off, a Sync in which every call succeeded
\* has issued delete calls for exactly the listed names that are not desired
\* and upserts for exactly the desired names; in the first invocation the
\* listed names are the store's initial entries.
C3_DeletesAndUpserts ==
    (SyncReturned /\ ~args.DryRun /\ err = NoErr /\ AllOk) =>
        /\ LogNames({"delete"}) = existingMap \ Mappings(op.scope)
        /\ LogNames(Upserting) = Mappings(op.scope)
        /\ (invocations = 1 =>
                existingMap = store0[Addr(op.scope, op.repo)][op.scope])

C3_Witness ==
    /\ SyncReturned
    /\ ~args.DryRun
    /\ err = NoErr
    /\ AllOk
    /\ LogNames({"delete"}) # {}
    /\ existingMap \cap Mappings(op.scope) # {}
    /\ Mappings(op.scope) \ existingMap # {}

\* C4: with prune unset no delete call is issued for any store, and every
\* entry that existed before the run and is not a desired name is still
\* present.
C4_NoPruneNoDelete ==
    ~args.Prune =>
        /\ "delete" \notin calls
        /\ \A r \in Repos : \A s \in Scopes :
               store0[r][s] \ Mappings(s) \subseteq store[r][s]

C4_Witness ==
    /\ ~args.Prune
    /\ ~args.DryRun
    /\ pc = "done"
    /\ store # store0
    /\ \E s \in Scopes : store[1][s] # store0[1][s] /\ store0[1][s] \ Mappings(s) # {}

\* C5: with prune set and dry-run off, once the run has processed its
\* repositories without error, no store a handler is responsible for holds
\* a name that is absent from the desired mapping, empty mappings included.
C5_PruneLeavesOnlyDesired ==
    (pc = "done" /\ args.Prune /\ ~args.DryRun) =>
        \A r \in processed : \A i \in 1..Len(Handlers(args)) :
            store[r][Handlers(args)[i]] \subseteq Mappings(Handlers(args)[i])

\* C6: a failed list call is the last call of its Sync invocation: the Sync
\* returns that error, no delete call is issued and no delete is scheduled
\* from the pages listed so far.
C6_ListFailureAbortsSync ==
    \A i \in 1..Len(log) :
        (log[i].kind = "list" /\ ~log[i].ok) =>
            /\ i = Len(log)
            /\ err = [kind |-> "list", arg |-> log[i].arg]
            /\ "delete" \notin {log[j].kind : j \in 1..Len(log)}
            /\ delLeft = {}

C6_Witness ==
    /\ SyncReturned
    /\ ~args.DryRun
    /\ Len(log) >= 2
    /\ log[Len(log)].kind = "list"
    /\ ~log[Len(log)].ok
    /\ existingMap \ Mappings(op.scope) # {}

\* C7: a failed delete call is the last call of its Sync invocation, so no
\* further delete, key fetch or create-or-update follows it, and the error
\* the Sync returns is that deletion failure.
C7_DeleteFailureAbortsSync ==
    \A i \in 1..Len(log) :
        (log[i].kind = "delete" /\ ~log[i].ok) =>
            /\ i = Len(log)
            /\ err = [kind |-> "delete", arg |-> log[i].arg]

C7_Witness ==
    /\ SyncReturned
    /\ Len(log) >= 1
    /\ log[Len(log)].kind = "delete"
    /\ ~log[Len(log)].ok
    /\ Cardinality(delLeft) >= 2
    /\ putLeft # {}

\* C8: in a query run, when the run has ended after the search, every
\* repository the search returned has been processed, also when an
\* operation on one of them failed.
C8_EveryRepositoryProcessed ==
    (args.Query # "" /\ pc \in {"done", "fatal"} /\ op.kind # "Search") =>
        processed = ReposSet

\* C9: with retries configured, a Sync or Put returns the error of a failed
\* remote call only after that very call has been attempted again.
C9_EveryCallRetried ==
    (pc = "returned" /\ err # NoErr /\ op.kind # "Search" /\ args.MaxRetries >= 1) =>
        Cardinality({i \in 1..Len(log) : log[i] = log[Len(log)]}) >= 2

\* C10: the retry decorator does not give up before the operation has been
\* invoked maxRetries times unless the maximum elapsed time is reached, and
\* when the k-th invocation succeeds it returns success without invoking
\* the operation again.
C10_SucceedsOnKthWithinElapsedTime ==
    /\ [][pc = "returned" /\ err # NoErr /\ pc' = "opDone" =>
            \/ invocations' >= args.MaxRetries
            \/ \E next \in RandomizedInterval(backoffOptions) :
                   MaxElapsedStop(backoffOptions'.elapsed, next)]_vars
    /\ [][pc = "returned" /\ err = NoErr =>
            pc' = "opDone" /\ err' = NoErr /\ invocations' = invocations]_vars

\* C10 as stated: the retry decorator never gives up before the operation
\* has been invoked maxRetries times, so that the k-th invocation, k not
\* larger than maxRetries, always takes place after k - 1 failures.
C10_SucceedsOnKthInvocation ==
    (pc = "opDone" /\ err # NoErr) => invocations >= args.MaxRetries

C10_Witness ==
    /\ pc = "opDone"
    /\ err = NoErr
    /\ args.MaxRetries = DefaultMaxRetries
    /\ invocations = DefaultMaxRetries

\* the last call of the current invocation failed
LastCallFailed == Len(log) > 0 /\ ~log[Len(log)].ok
\* the current invocation fetched a public key that does not decode, so that
\* the sealing of its first entry failed
SealFailed ==
    /\ DecodeStringErr(publicKey)
    /\ \E i \in 1..Len(log) : log[i].kind = "key" /\ log[i].ok
\* the retry decorator has given up and returned an error to its caller
GaveUp == pc = "opDone" /\ err # NoErr

\* C11: with maxRetries = 1 an operation that fails every time is invoked
\* exactly once before the decorator returns the failure.
C11_OneInvocationWithMaxRetriesOne ==
    (args.MaxRetries = 1 /\ GaveUp) => invocations = 1

\* C12: max-retries = 0 passes the validation of main (a run that ends in
\* main ends for another reason: the target and the query, a parse error,
\* the name of the target or its type), and then every
\* decorated operation is invoked exactly once and the outcome of that one
\* invocation, success or failure, is what the decorator returns.
C12_ZeroMeansNoRetries ==
    args.MaxRetries = 0 =>
        /\ (pc = "fatal" /\ op.kind = "none" =>
               \/ ~ValidTarget(args)
               \/ parsed.err
               \/ args.Query = "" /\ ~parseRepoFullName(args.TargetRepo)
               \/ UnsupportedTarget(args))
        /\ invocations <= 1
        /\ (pc = "opDone" => invocations = 1)
        /\ (pc = "opDone" => (err # NoErr <=> (LastCallFailed \/ SealFailed)))

C12_Witness ==
    /\ args.MaxRetries = 0
    /\ GaveUp
    /\ invocations = 1
    /\ op.kind = "Sync"

\* C13: when the decorator gives up, the error it returns is the error the
\* last invocation returned: the failure of that invocation's last call, or
\* of the sealing that followed its fetch of the public key.
C13_LastErrorUnchanged ==
    GaveUp =>
        IF SealFailed
        THEN err.kind = "seal" /\ err.arg \in putLeft /\ ~LastCallFailed
        ELSE /\ LastCallFailed
             /\ err = [kind |-> log[Len(log)].kind, arg |-> log[Len(log)].arg]

C13_Witness ==
    /\ GaveUp
    /\ args.MaxRetries = DefaultMaxRetries
    /\ invocations = DefaultMaxRetries + 1
    /\ err.kind = "delete"

\* C14: with the rate-limit governor enabled, every remote call of an
\* operation (each list page, key fetch, create-or-update and delete) has a
\* fetch of the quota as the remote call right before it.
C14_EveryCallAfterQuotaFetch ==
    args.RateLimit => \A i \in 1..Len(log) : log[i].gated

\* C15: when the governor passes a call on, and the quota it fetched had
\* remaining/limit at or below 5%, it has slept at least until one second
\* after the reset time of that quota; with a ratio above 5% it has not
\* slept at all.
C15_WaitsUntilResetPlusOneSecond ==
    (pc = "delegate" /\ rateLimitStatus # NoQuota) =>
        IF NearLimit(rateLimitStatus)
        THEN slept >= TimeToWait(rateLimitStatus) + 1
        ELSE slept = 0

\* the reset time of the quota window the governor was last told is reached
ResetReached == core.untilReset <= 0

\* C16: the governor does not fail or skip a call for low quota: provided
\* the reset time of the quota window is reached again and again, a call that
\* entered the governor is eventually passed on.
C16_GatedCallEventuallyDelegated ==
    ([]<>ResetReached) => ((pc = "ensureRatelimits") ~> (pc = "delegate"))

\* C17: on every variable scope create-or-update tries the update first and
\* the create only after the update failed: every create of a variable comes
\* right after a failed update of the same variable in the same store.
C17_UpdateFirstThenCreate ==
    \A i \in 1..Len(log) :
        log[i].kind = "create" =>
            /\ i > 1
            /\ log[i - 1].kind = "update"
            /\ ~log[i - 1].ok
            /\ log[i - 1].arg = log[i].arg
            /\ log[i - 1].scope = log[i].scope

\* C18: on every scope create-or-update of a name that exists in the
\* addressed store can succeed (and then overwrites the entry), so that a
\* sync run a second time with the same mapping succeeds again.
C18_UpsertOfExistingNameSucceeds ==
    pc = "upsert" =>
        \A n \in putLeft :
            LET a == Addr(op.scope, op.repo)
            IN (a # NoRepo /\ n \in store[a][op.scope]) =>
                   TRUE \in UpsertOutcomes(a, op.scope, n)

\* the positions of the public-key fetches among the calls of the invocation
KeyCalls == {i \in 1..Len(log) : log[i].kind = "key"}

\* C19: in one invocation that is not a dry run, a secret store's public key
\* is fetched at most once, it has been fetched exactly once and with success
\* when the loop over the entries runs and before any entry is sent, however
\* many entries there are; for a variable store no key is fetched.
C19_KeyFetchedOnceBeforeUpserts ==
    /\ Cardinality(KeyCalls) <= 1
    /\ \A i \in 1..Len(log) :
           log[i].kind = "put" =>
               \E j \in 1..(i - 1) : log[j].kind = "key" /\ log[j].ok
    /\ (pc = "upsert" /\ ~IsVariableScope(op.scope)) => Cardinality(KeyCalls) = 1
    /\ \A i \in 1..Len(log) : IsVariableScope(log[i].scope) => log[i].kind # "key"
    /\ args.DryRun => KeyCalls = {}

C19_Witness ==
    /\ pc = "opDone"
    /\ err = NoErr
    /\ Cardinality(KeyCalls) = 1
    /\ Cardinality({i \in 1..Len(log) : log[i].kind = "put"}) = NumNames - 1

\* C20: every secret sent carries the name of an entry of the mapping and
\* the key id of the public key of the store it is sent to, and that key was
\* fetched, with success, for the same repository and store earlier in the
\* same invocation: a key fetched for one repository or environment is not
\* used for another.
C20_SecretCarriesNameAndOwnKey ==
    \A i \in 1..Len(log) :
        log[i].kind = "put" =>
            /\ log[i].arg \in Mappings(log[i].scope)
            /\ log[i].keyID = KeyID(log[i].repo, log[i].scope)
            /\ \E j \in 1..(i - 1) :
                   /\ log[j].kind = "key"
                   /\ log[j].ok
                   /\ log[j].repo = log[i].repo
                   /\ log[j].scope = log[i].scope

C20_Witness ==
    \E i \in 1..Len(log) :
        /\ log[i].kind = "put"
        /\ log[i].ok
        /\ log[i].repo = NumRepos
        /\ log[i].scope = "envSecrets"
        /\ log[i].keyID = KeyID(NumRepos, "envSecrets")

(***************************************************************************)
(* Properties of parseKeyValuePairs, under ParseSpec.                      *)
(***************************************************************************)
\* the call has returned, and took the KEY=VALUE branch
KVFormat == parsed.returned /\ secretsRaw # <<>> /\ ~IsJSON(secretsRaw)
\* the call has returned, and took the JSON branch
JSONFormat == parsed.returned /\ IsJSON(secretsRaw)

\* the lines of the input that are not blank, trimmed, in their order
RECURSIVE NonBlank(_)
NonBlank(ls) ==
    IF ls = <<>> THEN <<>>
    ELSE IF \A i \in 1..Len(ls[1]) : IsSpace(ls[1][i])
    THEN NonBlank(Tail(ls))
    ELSE <<TrimSpace(ls[1])>> \o NonBlank(Tail(ls))

InputLines == NonBlank(Split(secretsRaw, "\n"))

\* the positions of '=' in a line
Equals(l) == {i \in 1..Len(l) : l[i] = "="}
FirstEqual(l) == CHOOSE i \in Equals(l) : \A j \in Equals(l) : i <= j
\* the text before and after the first '=' of a line, trimmed
TextBefore(l) == TrimSpace(SubSeq(l, 1, FirstEqual(l) - 1))
TextAfter(l) == TrimSpace(SubSeq(l, FirstEqual(l) + 1, Len(l)))

\* C24: in KEY=VALUE format every non-blank line of an input that parses is
\* split at its first '=' only: the mapping holds, under the upper-cased
\* trimmed text before it, the trimmed text after it (further '=' included)
\* unless a later line has the same key, and it holds no other entry.
C24_SplitAtFirstEqualOnly ==
    (KVFormat /\ ~parsed.err) =>
        /\ \A i \in 1..Len(InputLines) :
               /\ Equals(InputLines[i]) # {}
               /\ ToUpper(TextBefore(InputLines[i])) \in DOMAIN parsed.secrets
               /\ (\A j \in (i + 1)..Len(InputLines) :
                       ToUpper(TextBefore(InputLines[j])) # ToUpper(TextBefore(InputLines[i])))
                   => parsed.secrets[ToUpper(TextBefore(InputLines[i]))] = TextAfter(InputLines[i])
        /\ DOMAIN parsed.secrets =
               {ToUpper(TextBefore(InputLines[i])) : i \in 1..Len(InputLines)}

C24_Witness ==
    /\ KVFormat
    /\ ~parsed.err
    /\ Len(InputLines) = 2
    /\ \E i \in 1..2 :
           /\ Cardinality(Equals(InputLines[i])) = 2
           /\ parsed.secrets[<<"A">>] = <<"x", "=", "y">>
           /\ TextBefore(InputLines[i]) = <<"a">>

\* a line of a KEY=VALUE input is malformed: it has no '=', or nothing but
\* white space before or after its first '='
MalformedLine(l) ==
    \/ Equals(l) = {}
    \/ TextBefore(l) = <<>>
    \/ TextAfter(l) = <<>>

\* the members of the object a JSON input is, none when it is not valid JSON
InputMembers ==
    IF Valid(TrimSpace(secretsRaw)) /\ HasPrefix(TrimSpace(secretsRaw), "{")
    THEN Members(TrimSpace(secretsRaw), SkipSpace(TrimSpace(secretsRaw), 2))
    ELSE <<>>

\* a member of a JSON input is malformed: its key is empty after trimming,
\* or its value is the empty string or no string
MalformedMember(m) ==
    \/ TrimSpace(m.key) = <<>>
    \/ m.kind # "string"
    \/ m.value = <<>>

\* the input has a malformed entry
Malformed ==
    \/ KVFormat /\ \E i \in 1..Len(InputLines) : MalformedLine(InputLines[i])
    \/ JSONFormat /\ ~Valid(TrimSpace(secretsRaw))
    \/ JSONFormat /\ \E i \in 1..Len(InputMembers) : MalformedMember(InputMembers[i])

\* C25: parsing returns an error and no mapping whenever any entry of the
\* input is malformed: a line without '=' or with an empty key or value, or
\* invalid JSON, a JSON key that is empty after trimming, an empty JSON
\* value or a JSON value that is not a string.
C25_MalformedEntryIsAnError ==
    (parsed.returned /\ Malformed) => (parsed.err /\ parsed.isNil)

\* the positions of the input that hold no white space
NonSpace == {i \in 1..Len(secretsRaw) : ~IsSpace(secretsRaw[i])}
\* the first character of the input that is no white space is '{' and the
\* last one is '}'
Braced ==
    /\ NonSpace # {}
    /\ secretsRaw[CHOOSE i \in NonSpace : \A j \in NonSpace : i <= j] = "{"
    /\ secretsRaw[CHOOSE i \in NonSpace : \A j \in NonSpace : j <= i] = "}"

\* C26: the input is parsed as JSON if and only if its trimmed form starts
\* with '{' and ends with '}': then the call returns what
\* parseJSONKeyValuePairs returns on the trimmed input, and for every other
\* input what the loop over the KEY=VALUE lines of the input returns.
C26_JSONIffBraced ==
    parsed.returned =>
        IF Braced
        THEN parsed \in parseJSONKeyValuePairs(TrimSpace(secretsRaw))
        ELSE parsed = parseLines(Split(secretsRaw, "\n"), 1, EmptyMap)

C26_Witness ==
    /\ parsed.returned
    /\ ~parsed.err
    /\ ~Braced
    /\ Len(InputLines) = 2
    /\ secretsRaw[1] = "{"
    /\ parsed.secrets[<<"{", "B">>] = <<"{", "x", "}">>

\* the keys the entries of the input have before they are stored: the text
\* before the first '=' of a line, the key of a JSON member, trimmed
InputKeys ==
    IF KVFormat
    THEN {TextBefore(InputLines[i]) : i \in 1..Len(InputLines)}
    ELSE {TrimSpace(InputMembers[i].key) : i \in 1..Len(InputMembers)}

\* s has no lower-case letter
IsUpper(s) ==
    \A i \in 1..Len(s) :
        /\ \A j \in 1..Len(LowerLetters) : s[i] # LowerLetters[j]
        /\ \A p \in CasePairs : s[i] # p[1]

\* s and t are the same text up to the case of their letters
SameButCase(s, t) ==
    /\ Len(s) = Len(t)
    /\ \A i \in 1..Len(s) :
           \/ s[i] = t[i]
           \/ \E j \in 1..Len(LowerLetters) :
                  {s[i], t[i]} = {LowerLetters[j], UpperLetters[j]}
           \/ <<s[i], t[i]>> \in CasePairs
           \/ <<t[i], s[i]>> \in CasePairs

\* C27: in both formats every key of the parsed mapping is upper-case and
\* is, up to case, the trimmed key of an entry of the input, and every
\* entry of the input has its key in the mapping.
C27_KeysAreUpperCase ==
    (parsed.returned /\ ~parsed.err) =>
        /\ \A k \in DOMAIN parsed.secrets :
               /\ IsUpper(k)
               /\ \E t \in InputKeys : SameButCase(k, t)
        /\ \A t \in InputKeys : \E k \in DOMAIN parsed.secrets : SameButCase(k, t)

C27_Witness ==
    /\ JSONFormat
    /\ ~parsed.err
    /\ InputKeys = {<<"a">>}
    /\ DOMAIN parsed.secrets = {<<"A">>}
    /\ secretsRaw[1] = " "

\* the string literal that stands for the text v: in quotes, every newline
\* written as the escape \n
RECURSIVE Literal(_)
Literal(v) ==
    IF v = <<>> THEN <<>>
    ELSE (IF Head(v) = "\n" THEN <<"\\", "n">> ELSE <<Head(v)>>) \o Literal(Tail(v))

Quoted(v) == <<"\"">> \o Literal(v) \o <<"\"">>

\* the text t stands in the input as the value of a member: after a colon
\* and the white space that follows it
IsValueOfInput(t) ==
    \E i \in 1..Len(secretsRaw) :
        /\ i + Len(t) - 1 <= Len(secretsRaw)
        /\ SubSeq(secretsRaw, i, i + Len(t) - 1) = t
        /\ \E c \in 1..(i - 1) :
               /\ secretsRaw[c] = ":"
               /\ \A j \in (c + 1)..(i - 1) : secretsRaw[j] = " "

\* the number of newline characters of a text and of the values of a
\* mapping, and the number of \n escapes of the input
Newlines(v) == Cardinality({i \in 1..Len(v) : v[i] = "\n"})
RECURSIVE TotalNewlines(_, _)
TotalNewlines(m, K) ==
    IF K = {} THEN 0
    ELSE LET k == CHOOSE x \in K : TRUE
         IN Newlines(m[k]) + TotalNewlines(m, K \ {k})

NewlineEscapes ==
    Cardinality({i \in 1..(Len(secretsRaw) - 1) :
                     secretsRaw[i] = "\\" /\ secretsRaw[i + 1] = "n"})

\* C28: in JSON format every value of the mapping is the unescaped text of
\* a string value of the input, white space at its ends included: written
\* back as a string literal it is a value of the input.  When every member
\* of the input has a key of its own in the mapping, the values hold as many
\* newline characters as the input holds \n escapes.
C28_JSONValuesVerbatim ==
    (JSONFormat /\ ~parsed.err) =>
        /\ \A k \in DOMAIN parsed.secrets : IsValueOfInput(Quoted(parsed.secrets[k]))
        /\ (Cardinality(DOMAIN parsed.secrets) = Len(InputMembers) =>
                TotalNewlines(parsed.secrets, DOMAIN parsed.secrets) = NewlineEscapes)

C28_Witness ==
    /\ JSONFormat
    /\ ~parsed.err
    /\ DOMAIN parsed.secrets = {<<"A">>, <<"B">>}
    /\ parsed.secrets[<<"A">>] = <<"x", "\n", "y">>
    /\ parsed.secrets[<<"B">>] = <<" ", "x", " ">>

\* C29: the empty input, and an input of nothing but white space and
\* newlines, parses to an empty mapping without error; blank lines of a
\* KEY=VALUE input are ignored: the call returns what the loop over the
\* lines returns on the non-blank lines alone.
C29_BlankInputAndBlankLines ==
    /\ (parsed.returned /\ NonSpace = {}) =>
           (~parsed.err /\ ~parsed.isNil /\ DOMAIN parsed.secrets = {})
    /\ KVFormat => parsed = parseLines(InputLines, 1, EmptyMap)

C29_Witness ==
    /\ KVFormat
    /\ ~parsed.err
    /\ Len(Split(secretsRaw, "\n")) = 3
    /\ Split(secretsRaw, "\n")[2] = <<" ", "\t">>
    /\ Len(InputLines) = 2
    /\ DOMAIN parsed.secrets = {<<"A">>, <<"{", "B">>}

\* the (key, value) pairs of the entries of a KEY=VALUE input
InputPairs ==
    {<<TextBefore(InputLines[i]), TextAfter(InputLines[i])>> : i \in 1..Len(InputLines)}

\* the mapping written as KEY=VALUE lines, and the pairs of such lines
Serialize(m) == {k \o <<"=">> \o m[k] : k \in DOMAIN m}
PairsOf(lines) == {<<TextBefore(l), TextAfter(l)>> : l \in lines}

\* the pairs of the input with their keys in upper case, of the lines with
\* the same upper-case key the last one only
LastUpperPairs ==
    {<<ToUpper(TextBefore(InputLines[i])), TextAfter(InputLines[i])>> :
        i \in {j \in 1..Len(InputLines) :
                  \A l \in (j + 1)..Len(InputLines) :
                      ToUpper(TextBefore(InputLines[l])) # ToUpper(TextBefore(InputLines[j]))}}

\* C30 as stated: for every KEY=VALUE input that parses, the mapping written
\* back as KEY=VALUE lines has the same set of pairs as the input.
C30_RoundTripSamePairs ==
    (KVFormat /\ ~parsed.err) => PairsOf(Serialize(parsed.secrets)) = InputPairs

\* C30: for every KEY=VALUE input that parses, the mapping written back as
\* KEY=VALUE lines has the pairs of the input with their keys in upper case,
\* the last line only of those with the same upper-case key.
C30_RoundTripUpperLastWins ==
    (KVFormat /\ ~parsed.err) => PairsOf(Serialize(parsed.secrets)) = LastUpperPairs

C30_Witness ==
    /\ KVFormat
    /\ ~parsed.err
    /\ Len(InputLines) = 3
    /\ InputPairs = {<<<<"a">>, <<"x">>>>, <<<<"A">>, <<"x", "=", "y">>>>, <<<<"{", "b">>, <<"x">>>>}
    /\ PairsOf(Serialize(parsed.secrets)) = {<<<<"A">>, <<"x">>>>, <<<<"{", "B">>, <<"x">>>>}

(***************************************************************************)
(* Properties of main's use of parseKeyValuePairs.                         *)
(***************************************************************************)
\* parseKeyValuePairs returns an error on the input raw
IsMalformed(raw) == \A p \in Parses[raw] : p.err

\* C22: when the secrets input or the variables input is malformed, no
\* remote call of any kind (search, quota fetch, list, key fetch, create,
\* update, delete) is ever issued, the run ends in main, and unless
\* max-retries or the pair of target and query was rejected first it ends
\* with the parse error of the malformed input.
C22_ParseErrorBeforeAnyCall ==
    (IsMalformed(args.Secrets) \/ IsMalformed(args.Variables)) =>
        /\ calls = {}
        /\ log = <<>>
        /\ pc \in {"main", "fatal"}
        /\ (pc = "fatal" /\ ValidMaxRetries(args.MaxRetries) /\ ValidTarget(args)) =>
               /\ parsed.err
               /\ IsMalformed(secretsRaw)
               /\ secretsRaw \in {args.Secrets, args.Variables}

C22_Witness ==
    /\ pc = "fatal"
    /\ parsed.err
    /\ args.Query # ""
    /\ args.RateLimit
    /\ ~IsMalformed(args.Secrets)
    /\ args.Secrets # <<>>
    /\ secretsRaw = args.Variables

\* the text of the input in the line log.Fatalf writes for a parse error
FatalLine == IF pc = "fatal" /\ parsed.err THEN parsed.quoted ELSE <<>>

\* the text t occurs in s
Occurs(t, s) == \E i \in 1..(Len(s) - Len(t) + 1) : SubSeq(s, i, i + Len(t) - 1) = t

\* the values the lines of the secrets input give: the text after the first
\* '=' of every line that has one
SecretLines == {Split(args.Secrets, "\n")[i] : i \in 1..Len(Split(args.Secrets, "\n"))}
SecretValues == {TextAfter(l) : l \in {k \in SecretLines : Equals(k) # {}}} \ {<<>>}

\* C23: no log line holds the value, or a part of the value, of a secret of
\* the secrets input: the line written for a parse error holds none of the
\* values the lines of the secrets input give.
C23_NoSecretValueInLog ==
    \A v \in SecretValues : ~Occurs(v, FatalLine)

(***************************************************************************)
(* Properties of the sealing.                                              *)
(***************************************************************************)
\* C21: no secret is sent with a public key that decodes to fewer bytes
\* than the key size: sealing with such a key fails, and no create-or-update
\* call is made for the entry.
C21_ShortKeyIsRejected ==
    \A i \in 1..Len(log) :
        log[i].kind = "put" =>
            /\ DecodedLen(log[i].keyID) >= KeySize
            /\ BoxKey(DecodedLen(log[i].keyID)).zeros = 0


(***************************************************************************)
(* Properties of one Sync or Put attempt.                                  *)
(***************************************************************************)
\* the attempt has returned to backoff.Retry, or the operation to its caller
Returned == pc \in {"returned", "timer", "opDone", "fatal"}

\* the attempt's upsert phase was ended by an error: of the sealing of an
\* entry, or of its create-or-update call
UpsertEnded == err.kind \in {"seal", "put", "create"}

\* call i of the attempt is a create-or-update call that failed (an update
\* of an environment variable that failed is followed by its create)
UpsertFailed(i) == log[i].kind \in {"put", "create"} /\ ~log[i].ok

\* the calls of the attempt that create or update entry n
UpsertsOf(n) == {i \in 1..Len(log) : log[i].kind \in Upserting /\ log[i].arg = n}

\* C31: in an upsert phase the first failing seal or create-or-update call
\* ends the phase: the failed call is the last call of the attempt and the
\* attempt returns its error; after a failed seal there is no call for the
\* entry, and no call is made for any entry that was left.
C31_FirstUpsertFailureEndsPhase ==
    /\ \A i \in 1..Len(log) :
           UpsertFailed(i) =>
               /\ i = Len(log)
               /\ Returned
               /\ err = [kind |-> log[i].kind, arg |-> log[i].arg]
    /\ UpsertEnded =>
           /\ Returned
           /\ err.arg \in putLeft
           /\ err.kind = "seal" => UpsertsOf(err.arg) = {}
           /\ err.kind # "seal" => UpsertFailed(Len(log)) /\ log[Len(log)].arg = err.arg
           /\ \A n \in putLeft \ {err.arg} : UpsertsOf(n) = {}

\* a create-or-update call failed while another entry was left, and the
\* attempt returned without a call for that entry
C31_Witness ==
    /\ err.kind = "put"
    /\ pc = "returned"
    /\ Cardinality(putLeft) = 2
    /\ Len(log) > 0
    /\ UpsertFailed(Len(log))
    /\ \E n \in putLeft \ {err.arg} : UpsertsOf(n) = {}

\* the positions of the attempt's calls of kind k
CallsOf(k) == {i \in 1..Len(log) : log[i].kind = k}

\* the names the attempt has deleted
Deleted == {log[i].arg : i \in {j \in CallsOf("delete") : log[j].ok}}

\* the number of pages a listing of S has
Pages(S) == IF S = {} THEN 1 ELSE (Cardinality(S) + PerPage - 1) \div PerPage

\* the calls before call i that are no page of the listing: the fetch of the
\* repository of an environment store
BeforeList(i) == Cardinality({j \in CallsOf("get") : j < i})

\* C32: the existing-name set used to compute the deletions is the union of
\* the names on all pages of the listing: the pages are requested one after
\* another, from the first to the one with no further page, every one before
\* the first delete, and the set holds every name of the listed store.
C32_ExistingIsUnionOfAllPages ==
    /\ \A i \in CallsOf("list") :
           /\ log[i].arg = i - BeforeList(i)
           /\ \A j \in CallsOf("delete") : i < j
    /\ pc = "delete" =>
           /\ \A i \in CallsOf("list") : log[i].ok
           /\ Cardinality(CallsOf("list")) = Pages(existingMap)
           /\ existingMap = store[Addr(op.scope, op.repo)][op.scope] \cup Deleted
           /\ delLeft = (existingMap \ Mappings(op.scope)) \ Deleted

\* a listing of two pages was followed by a first delete, and the set holds
\* the names of both pages
C32_Witness ==
    /\ pc = "delete"
    /\ Cardinality(CallsOf("list")) = 2
    /\ Cardinality(existingMap) = NumNames
    /\ Cardinality(CallsOf("delete")) = 1
    /\ PageOf(existingMap, 2) # {}

\* C33: in every Sync attempt, on every store and whatever calls failed or
\* were retried, no delete call is issued for a name that is a key of the
\* desired mapping, and no step removes such a name from a store.
C33_NoDeleteOfDesiredName ==
    /\ \A i \in CallsOf("delete") : log[i].arg \notin Mappings(log[i].scope)
    /\ \A r \in Repos : \A s \in Scopes :
           store0[r][s] \cap Mappings(s) \subseteq store[r][s]

\* a retried attempt has deleted a name while a desired name is among the
\* listed ones
C33_Witness ==
    /\ invocations >= 2
    /\ CallsOf("delete") # {}
    /\ \E i \in CallsOf("delete") :
           log[i].ok /\ existingMap \cap Mappings(log[i].scope) # {}

\* the calls of the attempt's upsert phase named by the claim: the fetch of
\* the public key and the create-or-update calls
UpsertPhase == CallsOf("key") \cup CallsOf("put") \cup CallsOf("create") \cup CallsOf("update")

\* C34: within one Sync attempt the delete phase strictly precedes the
\* upsert phase: every delete call comes before every public-key fetch and
\* create-or-update call and has succeeded, and once such a call is issued no
\* name is left to delete.
C34_DeletesPrecedeUpserts ==
    /\ \A i \in UpsertPhase : \A j \in CallsOf("delete") : j < i /\ log[j].ok
    /\ UpsertPhase # {} => delLeft = {}

\* an attempt has deleted two names and then fetched the key and sent a
\* secret
C34_Witness ==
    /\ Cardinality(CallsOf("delete")) = 2
    /\ CallsOf("key") # {}
    /\ CallsOf("put") # {}

\* a Sync or Put operation called by a handler is under way: in the
\* governor, if there is one, or in the retry decorator
Running ==
    /\ op.kind \in {"Sync", "Put"}
    /\ pc \notin {"main", "handle", "opDone", "fatal", "done"}

\* the retry decorator starts the operation at most maxRetries + 1 times
BoundedInvocations == invocations <= args.MaxRetries + 1

\* an operation that has entered the retry decorator returns to its caller
RetryTerminates == (Running /\ invocations >= 1) ~> (pc = "opDone")

\* C35: every Sync or Put operation a handler calls is started by the retry
\* decorator at most maxRetries + 1 times, and the operation returns to the
\* handler.
C35_BoundedRetriesAndTermination ==
    /\ []BoundedInvocations
    /\ Running ~> (pc = "opDone")

(***************************************************************************)
(* Properties of the governor's quota fetch.                               *)
(***************************************************************************)
\* the governor is at work on a gated call
InGovernor == pc \in {"ensureRatelimits", "waitForRateLimitReset", "sleep", "delegate"}

\* this step is a fetch of the quota that failed
FetchFails ==
    /\ pc \in {"ensureRatelimits", "waitForRateLimitReset"}
    /\ core' = NoQuota

\* C36: when a fetch of the quota fails the governor neither waits nor
\* fails: it fetches nothing more and does not sleep, the call is passed on
\* to the retry decorator, once, and what the caller gets is what that
\* returned; a fetch is one call, not gated and not retried.
C36_FailedQuotaFetchPassesCallOn ==
    /\ [][FetchFails =>
             /\ pc' = "delegate"
             /\ slept' = slept
             /\ err' = err
             /\ op' = op
             /\ log' = log]_vars
    /\ [][pc = "delegate" =>
             /\ ~InGovernor'
             /\ op' = op
             /\ invocations' = 1]_vars
    /\ [](invocations >= 1 => ~InGovernor)
    /\ [](pc = "delegate" /\ rateLimitStatus = NoQuota => slept = 0)

\* the fetch of ensureRatelimits failed and the call is about to be passed on
C36_Witness ==
    /\ pc = "delegate"
    /\ core = NoQuota
    /\ rateLimitStatus = NoQuota
    /\ quotaFresh
    /\ op.kind = "Sync"

\* C37: every remote call issued while a requested repository and
\* environment are processed is addressed to that repository and to the store
\* of that environment.
C37_CallsAddressRequestedRepository ==
    (invocations >= 1 /\ op.kind \in {"Sync", "Put"}) =>
        \A i \in 1..Len(log) : log[i].repo = op.repo /\ log[i].scope = op.scope

(***************************************************************************)
(* Properties of the stores a run touches.                                 *)
(***************************************************************************)
\* the stores the target type and the environment select
Selected ==
    IF args.Type = Actions
    THEN IF args.Environment = ""
         THEN {"repoSecrets", "repoVariables"}
         ELSE {"envSecrets", "envVariables"}
    ELSE IF args.Type = Dependabot
         THEN {"dependabotSecrets"}
         ELSE {"codespacesSecrets"}

\* C38: processing a repository touches only the stores selected by type
\* and environment: every operation and every call is on a selected store,
\* the entries of every other store stay as they were, and with type
\* dependabot or codespaces no variable is ever sent.
C38_OnlySelectedStoresTouched ==
    /\ op.scope \in Selected \cup {"none"}
    /\ \A i \in 1..Len(log) : log[i].scope \in Selected \cup {"none"}
    /\ \A r \in Repos : \A s \in Scopes \ Selected : store[r][s] = store0[r][s]
    /\ args.Type # Actions => calls \cap {"create", "update"} = {}

\* a dependabot run with a non-empty variables mapping has processed a
\* repository and changed its Dependabot store
C38_Witness ==
    /\ args.Type = Dependabot
    /\ variablesMap # {}
    /\ processed # {}
    /\ \E r \in processed : store[r]["dependabotSecrets"] # store0[r]["dependabotSecrets"]

\* C39: parsing is a function of its input: whatever mapping a run of
\* parseKeyValuePairs returned for an input, every run on that input returns
\* the same mapping and the same error, also when two keys of the input
\* become equal after trimming and upper-casing.
C39_ParsingIsAFunction ==
    parsed.returned =>
        \A q \in parseKeyValuePairs(secretsRaw) :
            q.secrets = parsed.secrets /\ q.err = parsed.err

\* a dry run without prune on a repository-level, Dependabot or Codespaces
\* store: the handlers call Put*
DryRunPut ==
    /\ args.DryRun
    /\ ~args.Prune
    /\ ~(args.Type = Actions /\ args.Environment # "")

\* C40 as stated: with dry-run enabled and prune unset, processing a
\* repository on a repository-level, Dependabot or Codespaces store issues no
\* remote call of any kind and seals nothing (in a run on one target
\* repository, where no call is made to search for repositories).
C40_DryRunPutNoRemoteCall ==
    (DryRunPut /\ args.Query = "") =>
        /\ calls = {}
        /\ err.kind # "seal"

\* C40: with dry-run enabled and prune unset, processing a repository on a
\* repository-level, Dependabot or Codespaces store issues no call on any
\* store (no listing, no public-key fetch, no create, update or delete) and
\* seals nothing; the one remote call it can issue is the fetch of the quota
\* the governor, when enabled, makes before it passes each Put* on.
C40_DryRunPutNoStoreCall ==
    DryRunPut =>
        /\ calls \subseteq {"search", "ratelimit"}
        /\ "ratelimit" \in calls => args.RateLimit
        /\ \A i \in 1..Len(log) : log[i].kind = "search"
        /\ store = store0
        /\ publicKey = NoPublicKey
        /\ err.kind # "seal"

\* a dry run without prune has processed a repository with a non-empty
\* secrets mapping, with the governor enabled
C40_Witness ==
    /\ DryRunPut
    /\ args.RateLimit
    /\ secretsMap # {}
    /\ processed # {}
    /\ "ratelimit" \in calls
    /\ pc = "done"
=============================================================================
